---- MODULE Spec2Model ----
(***************************************************************************)
(* CLIProxy usage collector: the Delta Engine (collector.ts), the store    *)
(* (db.ts, the second half of src/src/server.ts), the Rate-Limit           *)
(* Reconciler (rate-limiter.ts, the second half of src/src/data-api.ts),   *)
(* the Scheduler (src/unnamed/part_002) and the control surface            *)
(* (src/src/server.ts, src/src/index.ts).                                  *)
(*                                                                         *)
(* Units.  Time is in seconds since 1970-01-01 00:00:00 UTC; SQLite's      *)
(* CURRENT_TIMESTAMP has one-second resolution, so two writes made at the  *)
(* same value of now carry the same timestamp.  Tokens and requests are    *)
(* plain counts.  Money is in micro-USD: a price of p USD per 1M tokens is *)
(* p micro-USD per token, so calculateCost is exact integer arithmetic     *)
(* (the source uses IEEE doubles; rounding error below 1e-9 USD is not     *)
(* modelled).  The breakdown column is kept as the structure that          *)
(* JSON.stringify / JSON.parse round-trip without loss (objects of finite  *)
(* numbers).  The JavaScript runtime's zone is UTC (the container default; *)
(* no TZ is set by the Dockerfile), which is what Date.setHours and the    *)
(* parsing of 'YYYY-MM-DD HH:MM:SS' depend on.                             *)
(***************************************************************************)
EXTENDS Integers, Sequences, FiniteSets, TLC

VARIABLES
    now,                \* the system clock, seconds UTC
    tzOffset,           \* config.timezoneOffset, hours
    upstream,           \* the cumulative usage report the proxy would return
    usage_snapshots,    \* table usage_snapshots, a sequence indexed by id
    model_usage,        \* table model_usage, a set of rows
    daily_stats,        \* table daily_stats, stat_date -> row
    rate_limit_configs, \* table rate_limit_configs, id -> row
    rate_limit_status,  \* table rate_limit_status, config_id -> row
    running,            \* the process: "new" (before main), "running", "exited"
    passes,             \* the runFullSync invocations in flight, oldest first
    intervalId,         \* Scheduler.intervalId: None, or the timer with its due time
    lastPass,           \* what the last storeUsageData call did (its locals)
    lastSync,           \* what the last syncLimits call computed (its locals)
    lastReset,          \* the last successful resetLimit call
    lastResponse,       \* the last answer of POST /api/collector/reset/:config_id
    shadow,             \* the delta tables as they would be had no pass failed
    budget              \* how many steps of each kind may still be taken

vars == <<now, tzOffset, upstream, usage_snapshots, model_usage, daily_stats,
          rate_limit_configs, rate_limit_status, running, passes, intervalId,
          lastPass, lastSync, lastReset, lastResponse, shadow, budget>>

-----------------------------------------------------------------------------
(* Bounds of the model *)

MaxEvents == 3
MaxPasses == 3
MaxTicks == 2
MaxFailEvents == 2
MaxFailTicks == 2
MaxLimitTicks == 1
MaxWeekEvents == 1
MaxWeekTicks == 2
MaxWeekPasses == 2
MaxBreakEvents == 3
MaxBreakPasses == 3
MaxBreakTicks == 2
MaxGrowEvents == 3
MaxGrowPasses == 3
MaxGrowTicks == 2
MaxRaceEvents == 2
MaxRacePasses == 2
MaxRaceTicks == 1
MaxFails == 1
MaxReconEvents == 2
MaxResets == 1
MaxSchedEvents == 1
MaxTies == 1
MaxRestarts == 1

-----------------------------------------------------------------------------
(* Program constants *)

MicroUSD == 1000000
FALSE_START_COST_THRESHOLD == 10
GAP_THRESHOLD_SECONDS == 1800
FALSE_START_TOKEN_THRESHOLD == 100000
DefaultTimezoneOffset == 7
Hour == 3600
Day == 86400

None == [none |-> TRUE]

\* F applied to values that are computed once (a local const of the source)
Let(a, F(_)) == F(a)
Let2(a, b, F(_, _)) == F(a, b)
Let3(a, b, c, F(_, _, _)) == F(a, b, c)
Let4(a, b, c, d, F(_, _, _, _)) == F(a, b, c, d)

Abs(x) == IF x < 0 THEN 0 - x ELSE x
Max(a, b) == IF a > b THEN a ELSE b
Min(a, b) == IF a < b THEN a ELSE b

\* floor of a / b for b > 0 (Math.floor of a quotient)
FloorDiv(a, b) == IF a >= 0 THEN a \div b ELSE 0 - ((0 - a + b - 1) \div b)

RECURSIVE SumSet(_, _)
SumSet(S, f) ==
    IF S = {} THEN 0
    ELSE LET x == CHOOSE y \in S : TRUE IN f[x] + SumSet(S \ {x}, f)

-----------------------------------------------------------------------------
(* Pricing oracle: pricing.ts *)

DEFAULT_PRICING ==
    [m \in {"gpt-4", "claude-opus", "o1"} |->
        CASE m = "gpt-4" -> [input |-> 30, output |-> 60]
          [] m = "claude-opus" -> [input |-> 15, output |-> 75]
          [] m = "o1" -> [input |-> 15, output |-> 60]]

findPricingForModel(modelName) == DEFAULT_PRICING[modelName]

calculateCost(inputTokens, outputTokens, pricing) ==
    inputTokens * pricing.input + outputTokens * pricing.output

-----------------------------------------------------------------------------
(* The upstream proxy: a cumulative report, keyed by <<endpoint, model>> *)

Models == {"gpt-4", "claude-opus"}
Endpoints == {"chat", "msgs"}
Keys == Endpoints \X Models

SmallUse ==
    [total_requests |-> 5, input_tokens |-> 600, output_tokens |-> 400,
     total_tokens |-> 1000]
BigUse ==
    [total_requests |-> 50, input_tokens |-> 500000, output_tokens |-> 500000,
     total_tokens |-> 1000000]

\* the traffic the proxy may serve in one step
DeltaEvents ==
    { <<<<"chat", "gpt-4">>, SmallUse>>, <<<<"msgs", "gpt-4">>, SmallUse>>,
      <<<<"chat", "gpt-4">>, BigUse>> }
ReconEvents ==
    { <<<<"chat", "gpt-4">>, SmallUse>>, <<<<"chat", "claude-opus">>, BigUse>> }
FailEvents == { <<<<"chat", "gpt-4">>, SmallUse>>, <<<<"chat", "gpt-4">>, BigUse>> }
SchedEvents == { <<<<"chat", "gpt-4">>, SmallUse>> }
GrowEvents ==
    { <<<<"chat", "gpt-4">>, SmallUse>>, <<<<"chat", "claude-opus">>, SmallUse>>,
      <<<<"chat", "claude-opus">>, BigUse>> }
BreakEvents ==
    { <<<<"chat", "gpt-4">>, SmallUse>>, <<<<"msgs", "gpt-4">>, SmallUse>>,
      <<<<"chat", "claude-opus">>, SmallUse>>, <<<<"msgs", "claude-opus">>, BigUse>> }

UnattributedRequests == 10

EmptyUsage ==
    [total_requests |-> 0, success_count |-> 0, failure_count |-> 0,
     total_tokens |-> 0, apis |-> << >>]

ZeroModelData ==
    [total_requests |-> 0, input_tokens |-> 0, output_tokens |-> 0,
     total_tokens |-> 0]

ApiRow(usage, k) == IF k \in DOMAIN usage.apis THEN usage.apis[k] ELSE ZeroModelData

-----------------------------------------------------------------------------
(* Store: db.ts *)

\* SELECT * FROM usage_snapshots ORDER BY collected_at DESC LIMIT ?
\* The ids of the rows, in every order the query may return: rows with equal
\* collected_at come in an order SQL leaves open.
getLatestSnapshots(snaps, limit) ==
    LET n == Len(snaps)
        m == Min(limit, n)
    IN  { s \in [1..m -> 1..n] :
            /\ \A a, b \in 1..m :
                  a < b => /\ s[a] # s[b]
                           /\ snaps[s[a]].collected_at >= snaps[s[b]].collected_at
            /\ \A k \in 1..n :
                  (\A a \in 1..m : s[a] # k)
                     => (m > 0 /\ snaps[k].collected_at <= snaps[s[m]].collected_at) }

\* SELECT * FROM model_usage WHERE snapshot_id = ?
getModelUsageBySnapshot(rows, snapshotId) == {r \in rows : r.snapshot_id = snapshotId}

\* SELECT * FROM daily_stats WHERE stat_date = ?
getDailyStats(daily, date) == IF date \in DOMAIN daily THEN daily[date] ELSE None

\* INSERT ... ON CONFLICT(stat_date) DO UPDATE
upsertDailyStats(daily, stats) ==
    [d \in DOMAIN daily \cup {stats.stat_date} |->
        IF d = stats.stat_date THEN stats ELSE daily[d]]

-----------------------------------------------------------------------------
(* Delta Engine: collector.ts *)

\* the date of the server clock, without the configured offset
getLocalDate_UTC(t, offset) == FloorDiv(t, Day)

\* getLocalDate: the day number of now + offset
getLocalDate(t, offset) == FloorDiv(t + offset * Hour, Day)

KeyOf(r) == <<r.api_endpoint, r.model_name>>

\* the rows storeUsageData builds from a report, keyed by <<endpoint, model>>
modelRecords(usage, snapshotId) ==
    [k \in DOMAIN usage.apis |->
        LET d == usage.apis[k]
        IN  [snapshot_id |-> snapshotId,
             model_name |-> k[2],
             estimated_cost_usd |->
                 calculateCost(d.input_tokens, d.output_tokens, findPricingForModel(k[2])),
             request_count |-> d.total_requests,
             input_tokens |-> d.input_tokens,
             output_tokens |-> d.output_tokens,
             total_tokens |-> d.total_tokens,
             api_endpoint |-> k[1]]]

\* prevUsageMap / currUsageMap of a set of rows of one snapshot
usageMap(rows) ==
    [k \in {KeyOf(r) : r \in rows} |-> CHOOSE r \in rows : KeyOf(r) = k]

ZeroCounters == [req |-> 0, tok |-> 0, cost |-> 0, inTok |-> 0, outTok |-> 0]

\* prev?.request_count || 0 and so on
Counters(map, k) ==
    IF k \in DOMAIN map
    THEN [req |-> map[k].request_count, tok |-> map[k].total_tokens,
          cost |-> map[k].estimated_cost_usd, inTok |-> map[k].input_tokens,
          outTok |-> map[k].output_tokens]
    ELSE ZeroCounters

\* a delta that is always the current counters
granularDelta_Current(prevMap, currMap, k) == Counters(currMap, k)

\* dReq .. dOut after the granular restart detection
granularDelta(prevMap, currMap, k) ==
    Let2(Counters(prevMap, k), Counters(currMap, k), LAMBDA p, c :
        Let([req |-> c.req - p.req, tok |-> c.tok - p.tok, cost |-> c.cost - p.cost,
             inTok |-> c.inTok - p.inTok, outTok |-> c.outTok - p.outTok],
            LAMBDA d : IF d.req < 0 \/ d.tok < 0 THEN c ELSE d))

\* a false-start test that never skips a key
isFalseStart_Never(prevMap, currMap, k) == FALSE

\* the false-start test on a key
isFalseStart(prevMap, currMap, k) ==
    Let2(granularDelta(prevMap, currMap, k), Counters(currMap, k), LAMBDA d, c :
        /\ d.cost > FALSE_START_COST_THRESHOLD * MicroUSD
        /\ Abs(d.cost - c.cost) < MicroUSD \div 10)

skippedKeys(prevMap, currMap) ==
    {k \in DOMAIN prevMap \cup DOMAIN currMap : isFalseStart(prevMap, currMap, k)}

\* per-key tuples that go through the false-start filter on every pass
keyDeltas_FilterAlways(hasPrev, prevMap, currMap) ==
    LET kept == {k \in DOMAIN prevMap \cup DOMAIN currMap :
                   /\ ~isFalseStart(prevMap, currMap, k)
                   /\ Let(granularDelta(prevMap, currMap, k),
                          LAMBDA d : d.req > 0 \/ d.cost > 0)}
    IN  [k \in kept |-> granularDelta(prevMap, currMap, k)]

\* the per-key tuples folded into breakdownDeltas
keyDeltas(hasPrev, prevMap, currMap) ==
    IF hasPrev
    THEN LET kept == {k \in DOMAIN prevMap \cup DOMAIN currMap :
                        /\ ~isFalseStart(prevMap, currMap, k)
                        /\ Let(granularDelta(prevMap, currMap, k),
                               LAMBDA d : d.req > 0 \/ d.cost > 0)}
         IN  [k \in kept |-> granularDelta(prevMap, currMap, k)]
    ELSE [k \in DOMAIN currMap |-> Counters(currMap, k)]

breakdownOf(kd) ==
    [models |->
        [m \in {k[2] : k \in DOMAIN kd} |->
            LET ks == {k \in DOMAIN kd : k[2] = m}
            IN  [requests |-> SumSet(ks, [k \in ks |-> kd[k].req]),
                 tokens |-> SumSet(ks, [k \in ks |-> kd[k].tok]),
                 cost |-> SumSet(ks, [k \in ks |-> kd[k].cost]),
                 input_tokens |-> SumSet(ks, [k \in ks |-> kd[k].inTok]),
                 output_tokens |-> SumSet(ks, [k \in ks |-> kd[k].outTok])]],
     endpoints |->
        [e \in {k[1] : k \in DOMAIN kd} |->
            LET ks == {k \in DOMAIN kd : k[1] = e}
            IN  [requests |-> SumSet(ks, [k \in ks |-> kd[k].req]),
                 tokens |-> SumSet(ks, [k \in ks |-> kd[k].tok]),
                 cost |-> SumSet(ks, [k \in ks |-> kd[k].cost]),
                 models |->
                    [m \in {k[2] : k \in ks} |->
                        [requests |-> kd[<<e, m>>].req,
                         tokens |-> kd[<<e, m>>].tok,
                         cost |-> kd[<<e, m>>].cost]]]]]

EmptyBreakdown == [models |-> << >>, endpoints |-> << >>]

ZeroModelBreakdown ==
    [requests |-> 0, tokens |-> 0, cost |-> 0, input_tokens |-> 0, output_tokens |-> 0]
ZeroLeaf == [requests |-> 0, tokens |-> 0, cost |-> 0]
ZeroEndpointBreakdown == [requests |-> 0, tokens |-> 0, cost |-> 0, models |-> << >>]

\* a merge that adds to the endpoints but not to the models nested in them
mergeBreakdown_FlatEndpoints(existing, deltas) ==
    [models |->
        [m \in DOMAIN existing.models \cup DOMAIN deltas.models |->
            LET ex == IF m \in DOMAIN existing.models
                      THEN existing.models[m] ELSE ZeroModelBreakdown
            IN  IF m \in DOMAIN deltas.models
                THEN LET dl == deltas.models[m]
                     IN  [requests |-> ex.requests + dl.requests,
                          tokens |-> ex.tokens + dl.tokens,
                          cost |-> ex.cost + dl.cost,
                          input_tokens |-> ex.input_tokens + dl.input_tokens,
                          output_tokens |-> ex.output_tokens + dl.output_tokens]
                ELSE ex],
     endpoints |->
        [e \in DOMAIN existing.endpoints \cup DOMAIN deltas.endpoints |->
            LET ex == IF e \in DOMAIN existing.endpoints
                      THEN existing.endpoints[e] ELSE ZeroEndpointBreakdown
            IN  IF e \in DOMAIN deltas.endpoints
                THEN LET dl == deltas.endpoints[e]
                     IN  [requests |-> ex.requests + dl.requests,
                          tokens |-> ex.tokens + dl.tokens,
                          cost |-> ex.cost + dl.cost,
                          models |-> IF ex.models = << >> THEN dl.models ELSE ex.models]
                ELSE ex]]

\* Merge Models / Merge Endpoints
mergeBreakdown(existing, deltas) ==
    [models |->
        [m \in DOMAIN existing.models \cup DOMAIN deltas.models |->
            LET ex == IF m \in DOMAIN existing.models
                      THEN existing.models[m] ELSE ZeroModelBreakdown
            IN  IF m \in DOMAIN deltas.models
                THEN LET dl == deltas.models[m]
                     IN  [requests |-> ex.requests + dl.requests,
                          tokens |-> ex.tokens + dl.tokens,
                          cost |-> ex.cost + dl.cost,
                          input_tokens |-> ex.input_tokens + dl.input_tokens,
                          output_tokens |-> ex.output_tokens + dl.output_tokens]
                ELSE ex],
     endpoints |->
        [e \in DOMAIN existing.endpoints \cup DOMAIN deltas.endpoints |->
            LET ex == IF e \in DOMAIN existing.endpoints
                      THEN existing.endpoints[e] ELSE ZeroEndpointBreakdown
            IN  IF e \in DOMAIN deltas.endpoints
                THEN LET dl == deltas.endpoints[e]
                     IN  [requests |-> ex.requests + dl.requests,
                          tokens |-> ex.tokens + dl.tokens,
                          cost |-> ex.cost + dl.cost,
                          models |->
                            [m \in DOMAIN ex.models \cup DOMAIN dl.models |->
                                LET em == IF m \in DOMAIN ex.models
                                          THEN ex.models[m] ELSE ZeroLeaf
                                IN  IF m \in DOMAIN dl.models
                                    THEN [requests |-> em.requests + dl.models[m].requests,
                                          tokens |-> em.tokens + dl.models[m].tokens,
                                          cost |-> em.cost + dl.models[m].cost]
                                    ELSE em]]
                ELSE ex]]

SumModels(breakdown, field) ==
    SumSet(DOMAIN breakdown.models,
           [m \in DOMAIN breakdown.models |-> breakdown.models[m][field]])

\* the coarse increments: current minus previous snapshot, current on a
\* restart or on the first snapshot
coarseDelta(hasPrev, prevSnap, cur) ==
    LET whole == [requests |-> cur.total_requests, success |-> cur.success_count,
                  failure |-> cur.failure_count, tokens |-> cur.total_tokens,
                  cost |-> cur.totalCost]
    IN  IF hasPrev
        THEN LET d == [requests |-> cur.total_requests - prevSnap.total_requests,
                       success |-> cur.success_count - prevSnap.success_count,
                       failure |-> cur.failure_count - prevSnap.failure_count,
                       tokens |-> cur.total_tokens - prevSnap.total_tokens,
                       cost |-> cur.cumulativeCost - prevSnap.cumulative_cost_usd]
             IN  IF d.requests < 0 \/ d.tokens < 0 THEN whole ELSE d
        ELSE whole

\* the increments after the false-start adjustment, the success/failure
\* scaling and the override by the breakdown sums
globalIncrements(hasPrev, prevSnap, prevMap, currMap, cur) ==
    Let3(coarseDelta(hasPrev, prevSnap, cur),
         breakdownOf(keyDeltas(hasPrev, prevMap, currMap)),
         skippedKeys(prevMap, currMap),
         LAMBDA coarse, deltas, skipped :
            IF hasPrev
            THEN Let2(SumModels(deltas, "requests"),
                      coarse.requests
                        - SumSet(skipped,
                                 [k \in skipped |-> granularDelta(prevMap, currMap, k).req]),
                      LAMBDA safeIncRequests, incRequests :
                        Let(incRequests > 0 /\ 100 * safeIncRequests < 99 * incRequests,
                            LAMBDA scale :
                                [requests |-> safeIncRequests,
                                 tokens |-> SumModels(deltas, "tokens"),
                                 cost |-> SumModels(deltas, "cost"),
                                 success |->
                                    IF scale
                                    THEN FloorDiv(coarse.success * safeIncRequests,
                                                  incRequests)
                                    ELSE coarse.success,
                                 failure |->
                                    IF scale
                                    THEN FloorDiv(coarse.failure * safeIncRequests,
                                                  incRequests)
                                    ELSE coarse.failure]))
            ELSE coarse)

NoDaily ==
    [total_requests |-> 0, success_count |-> 0, failure_count |-> 0,
     total_tokens |-> 0, estimated_cost_usd |-> 0, breakdown |-> EmptyBreakdown]

\* calculateDailyDelta: the row written to daily_stats
calculateDailyDelta(hasPrev, prevSnap, prevMap, currMap, cur, existingDaily, today) ==
    Let3(globalIncrements(hasPrev, prevSnap, prevMap, currMap, cur),
         breakdownOf(keyDeltas(hasPrev, prevMap, currMap)),
         IF existingDaily = None THEN NoDaily ELSE existingDaily,
         LAMBDA inc, deltas, old :
            Let(mergeBreakdown(old.breakdown, deltas), LAMBDA merged :
                Let3(SumModels(merged, "cost"), SumModels(merged, "tokens"),
                     SumModels(merged, "requests"),
                     LAMBDA totalCostFromBreakdown, totalTokensFromBreakdown,
                            totalRequestsFromBreakdown :
                        [stat_date |-> today,
                         total_requests |-> IF totalRequestsFromBreakdown > 0
                                            THEN totalRequestsFromBreakdown
                                            ELSE old.total_requests + inc.requests,
                         success_count |-> old.success_count + inc.success,
                         failure_count |-> old.failure_count + inc.failure,
                         total_tokens |-> IF totalTokensFromBreakdown > 0
                                          THEN totalTokensFromBreakdown
                                          ELSE old.total_tokens + inc.tokens,
                         estimated_cost_usd |-> IF totalCostFromBreakdown > 0
                                                THEN totalCostFromBreakdown
                                                ELSE old.estimated_cost_usd + inc.cost,
                         breakdown |-> merged])))

\* The statements of storeUsageData's try block that can throw, in order:
\* insertUsageSnapshot; the model loop (an entry without details) and
\* insertModelUsageBulk; updateSnapshotCost; calculateDailyDelta (its reads,
\* JSON.parse, upsertDailyStats).  No transaction spans them: what was written
\* before the throw stays written.
FailPoints == {"insertUsageSnapshot", "insertModelUsageBulk", "updateSnapshotCost",
               "calculateDailyDelta"}

\* a rowid allocator that hands out the largest rowid in use again
insertUsageSnapshot_ReuseRowid(snaps) == IF Len(snaps) = 0 THEN 1 ELSE Len(snaps)

\* insertUsageSnapshot: the lastInsertRowid of the INSERT into a table whose
\* id is INTEGER PRIMARY KEY AUTOINCREMENT and whose rows are never deleted
insertUsageSnapshot(snaps) == Len(snaps) + 1

\* one run of storeUsageData's try block on the tables db, with the rows that
\* getLatestSnapshots(1) (before the insert) and getLatestSnapshots(2) (after
\* it) returned
storeOutcome(db, usage, t, offset, fp, ls1, ls2) ==
    Let4(db.usage_snapshots,
         insertUsageSnapshot(db.usage_snapshots),
         IF Len(ls1) > 0 THEN db.usage_snapshots[ls1[1]].cumulative_cost_usd ELSE 0,
         getLocalDate(t, offset),
         LAMBDA snaps, snapshotId, lastCostTotal, today :
    Let(modelRecords(usage, snapshotId), LAMBDA records :
    Let(SumSet(DOMAIN records, [k \in DOMAIN records |-> records[k].estimated_cost_usd]),
        LAMBDA totalCost :
    Let3(Append(snaps,
                [id |-> snapshotId, collected_at |-> t,
                 total_requests |-> usage.total_requests,
                 success_count |-> usage.success_count,
                 failure_count |-> usage.failure_count,
                 total_tokens |-> usage.total_tokens,
                 cumulative_cost_usd |-> lastCostTotal]),
         db.model_usage \cup
            {[snapshot_id |-> records[k].snapshot_id,
              model_name |-> records[k].model_name,
              estimated_cost_usd |-> records[k].estimated_cost_usd,
              request_count |-> records[k].request_count,
              input_tokens |-> records[k].input_tokens,
              output_tokens |-> records[k].output_tokens,
              total_tokens |-> records[k].total_tokens,
              api_endpoint |-> records[k].api_endpoint,
              created_at |-> t] : k \in DOMAIN records},
         lastCostTotal + totalCost,
         LAMBDA snaps1, rows1, cumulativeCost :
    Let3([snaps1 EXCEPT ![snapshotId].cumulative_cost_usd = cumulativeCost],
         Len(ls2) >= 2,
         getDailyStats(db.daily_stats, today),
         LAMBDA snaps2, hasPrev, existingDaily :
    Let(IF hasPrev THEN snaps2[ls2[2]] ELSE None, LAMBDA prevSnap :
        [db |->
            CASE fp = "insertModelUsageBulk" ->
                    [db EXCEPT !.usage_snapshots = snaps1]
              [] fp = "updateSnapshotCost" ->
                    [db EXCEPT !.usage_snapshots = snaps1, !.model_usage = rows1]
              [] fp = "calculateDailyDelta" ->
                    [db EXCEPT !.usage_snapshots = snaps2, !.model_usage = rows1]
              [] OTHER ->
                    [usage_snapshots |-> snaps2, model_usage |-> rows1,
                     daily_stats |->
                        upsertDailyStats(
                            db.daily_stats,
                            calculateDailyDelta(
                                hasPrev, prevSnap,
                                IF hasPrev
                                THEN usageMap(getModelUsageBySnapshot(rows1, prevSnap.id))
                                ELSE << >>,
                                records,
                                [total_requests |-> usage.total_requests,
                                 success_count |-> usage.success_count,
                                 failure_count |-> usage.failure_count,
                                 total_tokens |-> usage.total_tokens,
                                 cumulativeCost |-> cumulativeCost,
                                 totalCost |-> totalCost],
                                existingDaily, today))],
         ok |-> fp = "none",
         locals |-> [kind |-> IF fp = "none" THEN "ok" ELSE "failed",
                     fp |-> fp, usage |-> usage, snapshotId |-> snapshotId,
                     prevId |-> IF hasPrev THEN prevSnap.id ELSE 0,
                     date |-> today, existing |-> existingDaily]]))))))

NoLocals(kind, fp, t, offset) ==
    [kind |-> kind, fp |-> fp, usage |-> None, snapshotId |-> 0, prevId |-> 0,
     date |-> getLocalDate(t, offset), existing |-> None]

\* a storeUsageData that stores an empty report when the fetch gave nothing
storeUsageData_StoreNull(db, data, t, offset, fp) ==
    IF fp = "insertUsageSnapshot"
    THEN {[db |-> db, ok |-> FALSE, locals |-> NoLocals("failed", fp, t, offset)]}
    ELSE { [storeOutcome(db, IF data = None THEN EmptyUsage ELSE data.usage,
                         t, offset, fp, ls1, ls2)
               EXCEPT !.locals.kind = IF data = None THEN "nodata" ELSE @] :
              ls1 \in getLatestSnapshots(db.usage_snapshots, 1),
              ls2 \in getLatestSnapshots(
                         Append(db.usage_snapshots, [collected_at |-> t]), 2) }

\* storeUsageData: every outcome of one call
storeUsageData(db, data, t, offset, fp) ==
    IF data = None
    THEN {[db |-> db, ok |-> FALSE, locals |-> NoLocals("nodata", "none", t, offset)]}
    ELSE IF fp = "insertUsageSnapshot"
    THEN {[db |-> db, ok |-> FALSE, locals |-> NoLocals("failed", fp, t, offset)]}
    ELSE { storeOutcome(db, data.usage, t, offset, fp, ls1, ls2) :
              ls1 \in getLatestSnapshots(db.usage_snapshots, 1),
              ls2 \in getLatestSnapshots(
                         Append(db.usage_snapshots, [collected_at |-> t]), 2) }

-----------------------------------------------------------------------------
(* Timestamps as the store and the Reconciler see them *)

\* The two textual forms a timestamp takes.  A model_usage.created_at value t
\* stands for the text CURRENT_TIMESTAMP produced at t, 'YYYY-MM-DD HH:MM:SS';
\* Date.toISOString gives 'YYYY-MM-DDTHH:MM:SS.sssZ'.  The two agree on the
\* first ten characters when the dates agree and differ at the eleventh,
\* ' ' (0x20) against 'T' (0x54).
CURRENT_TIMESTAMP(t) == [date |-> FloorDiv(t, Day), sep |-> 32, tod |-> t % Day]
toISOString(t) == [date |-> FloorDiv(t, Day), sep |-> 84, tod |-> t % Day]

\* SQLite's comparison of two TEXT values (BINARY collation): a < b
TextLess(a, b) ==
    \/ a.date < b.date
    \/ a.date = b.date /\ a.sep < b.sep
    \/ a.date = b.date /\ a.sep = b.sep /\ a.tod < b.tod

\* new Date(text): both forms are read as a wall-clock time of the runtime's
\* zone (UTC), resp. as UTC
ParseDate(text) == text.date * Day + text.tod

\* getLocalDateTime: a Date shifted by the configured offset
getLocalDateTime(t, offset) == t + offset * Hour

-----------------------------------------------------------------------------
(* model_name LIKE '%pattern%' *)

Spelling ==
    [s \in {"gpt-4", "claude-opus", "gpt", "-", "All Models"} |->
        CASE s = "gpt-4" -> <<"g", "p", "t", "-", "4">>
          [] s = "claude-opus" -> <<"c", "l", "a", "u", "d", "e", "-", "o", "p", "u", "s">>
          [] s = "gpt" -> <<"g", "p", "t">>
          [] s = "-" -> <<"-">>
          [] s = "All Models" -> <<"a", "l", "l", " ", "m", "o", "d", "e", "l", "s">>]

\* the characters of p occur in s from position i on (LIKE is case-blind
\* on ASCII letters; Spelling is already folded to lower case)
PrefixAt(p, s, i) ==
    /\ i + Len(p) - 1 <= Len(s)
    /\ \A j \in 1..Len(p) : s[i + j - 1] = p[j]

Like(pattern, name) ==
    \E i \in 1..(Len(Spelling[name]) + 1) : PrefixAt(Spelling[pattern], Spelling[name], i)

\* SELECT * FROM model_usage WHERE model_name LIKE ? [AND created_at >= ?]
\* [AND created_at < ?]; since and before are ISO texts or None
getModelUsageByPattern(rows, pattern, sinceTime, beforeTime) ==
    {r \in rows :
        /\ Like(pattern, r.model_name)
        /\ sinceTime # None => ~TextLess(CURRENT_TIMESTAMP(r.created_at), sinceTime)
        /\ beforeTime # None => TextLess(CURRENT_TIMESTAMP(r.created_at), beforeTime)}

\* created_at of the first row under ORDER BY created_at DESC / ASC LIMIT 1
LatestCreatedAt(rs) == CHOOSE t \in {r.created_at : r \in rs} :
                            \A r \in rs : r.created_at <= t
EarliestCreatedAt(rs) == CHOOSE t \in {r.created_at : r \in rs} :
                            \A r \in rs : r.created_at >= t

-----------------------------------------------------------------------------
(* Rate-Limit Reconciler: rate-limiter.ts *)

FalseStartTokenTolerance == 100

RECURSIVE GCD(_, _)
GCD(a, b) == IF b = 0 THEN a ELSE GCD(b, a % b)

ZeroRec == [total_tokens |-> 0, request_count |-> 0]

\* buildSnapshotMap: per model, the sum over every matching row whose
\* created_at equals snapshotTime
buildSnapshotMap(rows, modelPattern, snapshotTime) ==
    Let({r \in getModelUsageByPattern(rows, modelPattern, None, None) :
            r.created_at = snapshotTime},
        LAMBDA recs :
            [m \in {r.model_name : r \in recs} |->
                Let({r \in recs : r.model_name = m}, LAMBDA rs :
                    [total_tokens |-> SumSet(rs, [r \in rs |-> r.total_tokens]),
                     request_count |-> SumSet(rs, [r \in rs |-> r.request_count])])])

\* diff * num / den rounded to the nearest integer, halves upwards (Math.round),
\* computed on the quotient and the remainder of diff by den
ScaledRound(diff, num, den) ==
    LET q == FloorDiv(diff, den)
        r == diff - q * den
    IN  num * q + FloorDiv(2 * num * r + den, 2 * den)

\* an interpolation that rounds down (Math.floor for Math.round)
Interp_Floor(start, end, num, den) ==
    start + FloorDiv(end - start, den) * num
          + FloorDiv(num * ((end - start) - FloorDiv(end - start, den) * den), den)

\* Math.round(start + ratio * (end - start)) for ratio = num / den
Interp(start, end, num, den) == start + ScaledRound(end - start, num, den)

\* interpolateSnapshotMap, with the ratio as a reduced fraction
interpolateSnapshotMap(baselineMap, firstInnerMap, num, den) ==
    [m \in DOMAIN baselineMap \cup DOMAIN firstInnerMap |->
        LET baselineRec == IF m \in DOMAIN baselineMap THEN baselineMap[m] ELSE ZeroRec
            innerRec == IF m \in DOMAIN firstInnerMap THEN firstInnerMap[m]
                        ELSE baselineRec
        IN  [total_tokens |->
                Interp(baselineRec.total_tokens, innerRec.total_tokens, num, den),
             request_count |->
                Interp(baselineRec.request_count, innerRec.request_count, num, den)]]

\* what one model contributes in calculateDeltaFromSnapshots
modelDelta(currentMap, baselineMap, m) ==
    Let2(IF m \in DOMAIN currentMap THEN currentMap[m] ELSE ZeroRec,
         IF m \in DOMAIN baselineMap THEN baselineMap[m] ELSE ZeroRec,
         LAMBDA currentRec, baselineRec :
    Let3(currentRec.total_tokens - baselineRec.total_tokens,
         currentRec.request_count - baselineRec.request_count,
         \/ m \notin DOMAIN baselineMap
         \/ baselineRec.total_tokens = 0 /\ baselineRec.request_count = 0,
         LAMBDA rawTokens, rawReqs, isNewModel :
    Let(rawTokens < 0 \/ rawReqs < 0, LAMBDA restart :
    Let2(IF restart THEN currentRec.total_tokens ELSE rawTokens,
         IF restart THEN currentRec.request_count ELSE rawReqs,
         LAMBDA deltaTokens, deltaReqs :
    Let(/\ isNewModel
        /\ deltaTokens > FALSE_START_TOKEN_THRESHOLD
        /\ \/ baselineRec.total_tokens = 0
           \/ Abs(deltaTokens - currentRec.total_tokens) < FalseStartTokenTolerance,
        LAMBDA falseStart :
            [total_tokens |-> IF falseStart THEN 0 ELSE Max(0, deltaTokens),
             request_count |-> IF falseStart THEN 0 ELSE Max(0, deltaReqs),
             restart |-> restart, falseStart |-> falseStart])))))

\* calculateDeltaFromSnapshots on the two maps
calculateDeltaFromSnapshots(currentMap, baselineMap) ==
    LET allModels == DOMAIN currentMap \cup DOMAIN baselineMap
    IN  [total_tokens |->
            SumSet(allModels,
                   [m \in allModels |-> modelDelta(currentMap, baselineMap, m).total_tokens]),
         request_count |->
            SumSet(allModels,
                   [m \in allModels |-> modelDelta(currentMap, baselineMap, m).request_count])]

\* calculateUsage: the usage it returns, with the locals it computed on the way
\* (path names the return statement taken)
calculateUsage(rows, modelPattern, since) ==
    Let3(getModelUsageByPattern(rows, modelPattern, None, None),
         getModelUsageByPattern(rows, modelPattern, toISOString(since), None),
         getModelUsageByPattern(rows, modelPattern, None, toISOString(since)),
         LAMBDA all, inner, before :
    Let3(LatestCreatedAt(all), EarliestCreatedAt(inner), LatestCreatedAt(before),
         LAMBDA latestTime, firstInnerSnapshotTime, baselineTime :
    Let3(ParseDate(CURRENT_TIMESTAMP(latestTime)),
         ParseDate(CURRENT_TIMESTAMP(baselineTime)),
         ParseDate(CURRENT_TIMESTAMP(firstInnerSnapshotTime)),
         LAMBDA latestDt, baselineDt, firstInnerDt :
    Let2(firstInnerDt - baselineDt, since - baselineDt, LAMBDA gapSeconds, ratioSeconds :
    Let(Max(0, Min(gapSeconds, ratioSeconds)), LAMBDA clipped :
    Let(GCD(clipped, gapSeconds), LAMBDA g :
    Let3(IF all = {} THEN "nodata"
         ELSE IF latestDt < since THEN "stale"
         ELSE IF before = {} THEN (IF inner = {} THEN "empty" ELSE "optimistic")
         ELSE IF inner = {} THEN "noinner"
         ELSE IF gapSeconds > GAP_THRESHOLD_SECONDS THEN "gap"
         ELSE "nogap",
         clipped \div g,
         gapSeconds \div g,
         LAMBDA path, num, den :
    Let3(buildSnapshotMap(rows, modelPattern, latestTime),
         buildSnapshotMap(rows, modelPattern, baselineTime),
         buildSnapshotMap(rows, modelPattern, firstInnerSnapshotTime),
         LAMBDA currentMap, baselineMap, firstInnerMap :
    Let2(CASE path = "optimistic" -> firstInnerMap
           [] path = "gap" ->
                interpolateSnapshotMap(baselineMap, firstInnerMap, num, den)
           [] OTHER -> baselineMap,
         path \in {"optimistic", "noinner", "gap", "nogap"},
         LAMBDA usedBaseline, counted :
    Let(IF counted THEN calculateDeltaFromSnapshots(currentMap, usedBaseline)
        ELSE ZeroRec,
        LAMBDA usage :
        [total_tokens |-> usage.total_tokens,
         request_count |-> usage.request_count,
         path |-> path,
         latestTime |-> IF all = {} THEN 0 ELSE latestTime,
         firstInnerSnapshotTime |->
            IF path \in {"optimistic", "gap", "nogap"} THEN firstInnerSnapshotTime ELSE 0,
         baselineTime |->
            IF path \in {"noinner", "gap", "nogap"} THEN baselineTime ELSE 0,
         currentMap |-> IF counted THEN currentMap ELSE << >>,
         baselineMap |-> IF path \in {"noinner", "gap", "nogap"} THEN baselineMap ELSE << >>,
         firstInnerMap |->
            IF path \in {"optimistic", "gap", "nogap"} THEN firstInnerMap ELSE << >>,
         usedBaseline |-> IF counted THEN usedBaseline ELSE << >>,
         num |-> IF path = "gap" THEN num ELSE 0,
         den |-> IF path = "gap" THEN den ELSE 1]))))))))))

\* getDay of a Date: 1970-01-01 was a Thursday (4)
getDay(t) == (FloorDiv(t, Day) + 4) % 7

\* setHours(0, 0, 0, 0)
StartOfDay(t) == FloorDiv(t, Day) * Day

\* days since Monday without the special case of Sunday
daysSinceMonday_NoSundayCase(startOfToday) == getDay(startOfToday) - 1

\* startOfToday.getDay() === 0 ? 6 : startOfToday.getDay() - 1
daysSinceMonday(startOfToday) ==
    IF getDay(startOfToday) = 0 THEN 6 ELSE getDay(startOfToday) - 1

\* a daily window that starts at the midnight before the last one
calculatedWindow_DayEarlier(resetStrategy, windowMinutes, nowLocal) ==
    CASE resetStrategy = "daily" ->
            [start |-> StartOfDay(nowLocal) - Day, nextReset |-> StartOfDay(nowLocal)]
      [] resetStrategy = "weekly" ->
            LET startOfToday == StartOfDay(nowLocal)
                start == startOfToday - daysSinceMonday(startOfToday) * Day
            IN  [start |-> start, nextReset |-> start + 7 * Day]
      [] resetStrategy = "rolling" ->
            [start |-> nowLocal - windowMinutes * 60, nextReset |-> nowLocal + 60]

\* the window processConfig computes from the strategy
calculatedWindow(resetStrategy, windowMinutes, nowLocal) ==
    CASE resetStrategy = "daily" ->
            [start |-> StartOfDay(nowLocal), nextReset |-> StartOfDay(nowLocal) + Day]
      [] resetStrategy = "weekly" ->
            LET startOfToday == StartOfDay(nowLocal)
                start == startOfToday - daysSinceMonday(startOfToday) * Day
            IN  [start |-> start, nextReset |-> start + 7 * Day]
      [] resetStrategy = "rolling" ->
            [start |-> nowLocal - windowMinutes * 60, nextReset |-> nowLocal + 60]

\* updateStatus: the row it upserts.  A limit column that is NULL is held as
\* 0: every reader treats the two alike (tokenLimit !== null && tokenLimit > 0,
\* config.token_limit || 0).  Timestamps of the status row are held as the
\* shifted instant whose toISOString text the column stores; 0 is NULL.
updateStatus(configId, usedTokens, usedRequests, windowStart, nextReset, tokenLimit, requestLimit, nowLocal) ==
    Let2(tokenLimit > 0, ~(tokenLimit > 0) /\ requestLimit > 0, LAMBDA byTokens, byRequests :
    Let2(IF byTokens THEN Max(0, tokenLimit - usedTokens) ELSE 0,
         IF byRequests THEN Max(0, requestLimit - usedRequests) ELSE 0,
         LAMBDA remTokens, remRequests :
    Let(IF byTokens THEN FloorDiv(remTokens * 100, tokenLimit)
        ELSE IF byRequests THEN FloorDiv(remRequests * 100, requestLimit)
        ELSE 100,
        LAMBDA percentage :
        [config_id |-> configId,
         last_updated |-> nowLocal,
         window_start |-> windowStart,
         used_tokens |-> usedTokens,
         used_requests |-> usedRequests,
         status_label |-> IF byTokens THEN <<usedTokens, tokenLimit, "Tokens">>
                          ELSE IF byRequests THEN <<usedRequests, requestLimit, "Requests">>
                          ELSE <<usedTokens, usedRequests, "Used">>,
         percentage |-> Max(0, Min(100, percentage)),
         remaining_tokens |-> remTokens,
         remaining_requests |-> remRequests,
         next_reset |-> nextReset])))

Strategies == {"daily", "weekly", "rolling"}

\* a processConfig that takes every anchor, expired or not, as window start
processConfig_AnchorAlways(config, rows, nowLocal) ==
    IF \/ config.id = 0 \/ config.window_minutes = 0
       \/ config.reset_strategy \notin Strategies
    THEN [skipped |-> TRUE]
    ELSE Let2(calculatedWindow(config.reset_strategy, config.window_minutes, nowLocal),
              config.reset_anchor_timestamp,
              LAMBDA w, resetAnchorStr :
         Let(resetAnchorStr # None, LAMBDA anchored :
         Let(IF anchored THEN ParseDate(resetAnchorStr) ELSE w.start, LAMBDA windowStart :
         Let(calculateUsage(rows, config.model_pattern, windowStart), LAMBDA usage :
             [skipped |-> FALSE,
              at |-> nowLocal,
              calculatedWindowStart |-> w.start,
              anchored |-> anchored,
              windowStart |-> windowStart,
              usage |-> usage,
              status |-> updateStatus(config.id, usage.total_tokens, usage.request_count,
                                      windowStart, w.nextReset, config.token_limit,
                                      config.request_limit, nowLocal)]))))

\* processConfig: skipped, or the locals and the status row
processConfig(config, rows, nowLocal) ==
    IF \/ config.id = 0 \/ config.window_minutes = 0
       \/ config.reset_strategy \notin Strategies
    THEN [skipped |-> TRUE]
    ELSE Let2(calculatedWindow(config.reset_strategy, config.window_minutes, nowLocal),
              config.reset_anchor_timestamp,
              LAMBDA w, resetAnchorStr :
         Let(/\ resetAnchorStr # None
             /\ ParseDate(resetAnchorStr) > w.start,
             LAMBDA anchored :
         Let(IF anchored THEN ParseDate(resetAnchorStr) ELSE w.start, LAMBDA windowStart :
         Let(calculateUsage(rows, config.model_pattern, windowStart), LAMBDA usage :
             [skipped |-> FALSE,
              at |-> nowLocal,
              calculatedWindowStart |-> w.start,
              anchored |-> anchored,
              windowStart |-> windowStart,
              usage |-> usage,
              status |-> updateStatus(config.id, usage.total_tokens, usage.request_count,
                                      windowStart, w.nextReset, config.token_limit,
                                      config.request_limit, nowLocal)]))))

\* what the processConfig calls of one syncLimits computed
syncLocals(configs, rows, nowLocal) ==
    [c \in DOMAIN configs |-> processConfig(configs[c], rows, nowLocal)]

\* a read that returns the configs without the anchors a reset has written
getAllRateLimitConfigs_BeforeReset(configs) ==
    [c \in DOMAIN configs |-> [configs[c] EXCEPT !.reset_anchor_timestamp = None]]

\* getAllRateLimitConfigs: SELECT * FROM rate_limit_configs, at the start of
\* syncLimits
getAllRateLimitConfigs(configs) == configs

\* a syncLimits whose loop ends at the first config that throws
syncLimits_StopAtThrow(configs, statuses, rows, nowLocal, thrown) ==
    Let(syncLocals(configs, rows, nowLocal), LAMBDA done :
        Let({c \in DOMAIN configs :
                ~done[c].skipped /\ \A t \in thrown : c < t}, LAMBDA written :
            [c \in DOMAIN statuses \cup written |->
                IF c \in written THEN done[c].status ELSE statuses[c]]))

\* syncLimits: the status table after every config was processed.  thrown
\* holds the configs whose processing throws (a query of calculateUsage, or
\* upsertRateLimitStatus): the catch around processConfig, resp. inside
\* updateStatus, logs and the loop goes on with the next config.
syncLimits(configs, statuses, rows, nowLocal, thrown) ==
    Let(syncLocals(configs, rows, nowLocal), LAMBDA done :
        Let({c \in DOMAIN configs : c \notin thrown /\ ~done[c].skipped}, LAMBDA written :
            [c \in DOMAIN statuses \cup written |->
                IF c \in written THEN done[c].status ELSE statuses[c]]))

\* resetLimit on an existing config: the status row and the anchor it writes
resetStatus(config, nowLocal) ==
    LET tokenLimit == config.token_limit
        requestLimit == config.request_limit
    IN  [config_id |-> config.id,
         last_updated |-> nowLocal,
         window_start |-> nowLocal,
         used_tokens |-> 0,
         used_requests |-> 0,
         status_label |-> IF tokenLimit > 0 THEN <<0, tokenLimit, "Tokens">>
                          ELSE IF requestLimit > 0 THEN <<0, requestLimit, "Requests">>
                          ELSE <<0, 0, "Unlimited">>,
         percentage |-> 100,
         remaining_tokens |-> tokenLimit,
         remaining_requests |-> requestLimit,
         next_reset |-> 0]

-----------------------------------------------------------------------------
(* The state machine *)

CollectorInterval == 300
FetchTimeout == 30                  \* AbortSignal.timeout(30000) of fetchUsageData
StartTime == 11 * Day + 85800      \* Monday 1970-01-12 23:50:00 UTC
LongTick == 8 * CollectorInterval   \* 40 minutes, more than the gap threshold
DayTick == Day                      \* the collector was down for a day
DeltaStart == 11 * Day + 60900     \* Monday 1970-01-12 16:55:00 UTC
FailStart == 11 * Day + 60000      \* Monday 1970-01-12 16:40:00 UTC
Config(strategy, pattern, unit) ==
    [id |-> 1, model_pattern |-> pattern,
     window_minutes |-> CASE strategy = "daily" -> 24 * 60
                          [] strategy = "weekly" -> 168 * 60
                          [] OTHER -> 60,
     reset_strategy |-> strategy,
     token_limit |-> IF unit \in {"tokens", "both"} THEN 2000 ELSE 0,
     request_limit |-> IF unit \in {"requests", "both"} THEN 20 ELSE 0,
     reset_anchor_timestamp |-> None]

\* deployments: a timezone offset and the rate_limit_configs table
\* saveRateLimits has left
Deployments ==
    { <<0 - 1, Config("daily", "gpt", "tokens")>>,
      <<0, Config("daily", "-", "tokens")>>,
      <<DefaultTimezoneOffset, Config("daily", "gpt", "requests")>>,
      <<0, Config("weekly", "-", "requests")>>,
      <<0, Config("rolling", "gpt", "tokens")>>,
      <<0 - 1, Config("rolling", "-", "requests")>> }

DB == [usage_snapshots |-> usage_snapshots, model_usage |-> model_usage,
       daily_stats |-> daily_stats]

EmptyDB == [usage_snapshots |-> << >>, model_usage |-> {}, daily_stats |-> << >>]

InitWith(start, deployments, proc, steps) ==
    /\ now = start
    /\ \E d \in deployments :
          /\ tzOffset = d[1]
          /\ rate_limit_configs = d[2]
    /\ upstream = EmptyUsage
    /\ usage_snapshots = << >>
    /\ model_usage = {}
    /\ daily_stats = << >>
    /\ rate_limit_status = << >>
    /\ running = proc
    /\ passes = << >>
    /\ intervalId = None
    /\ lastPass = [n |-> 0, at |-> 0, prev |-> "none",
                   locals |-> NoLocals("none", "none", 0, 0)]
    /\ lastSync = [n |-> 0, at |-> 0, prevAt |-> 0, upstream |-> EmptyUsage,
                   prevUpstream |-> EmptyUsage,
                   before |-> << >>, ingested |-> FALSE, thrown |-> {},
                   prevThrown |-> {},
                   locals |-> << >>]
    /\ lastReset = None
    /\ lastResponse = None
    /\ shadow = EmptyDB
    /\ budget = steps

\* --- the environment ---

\* the proxy serves requests of one key
Use(k, u) ==
    /\ running # "exited"
    /\ budget.events > 0
    /\ upstream' =
          [upstream EXCEPT
             !.total_requests = @ + u.total_requests,
             !.success_count = @ + u.total_requests,
             !.total_tokens = @ + u.total_tokens,
             !.apis = [kk \in DOMAIN @ \cup {k} |->
                         IF kk = k
                         THEN [total_requests |-> ApiRow(upstream, k).total_requests
                                                     + u.total_requests,
                               input_tokens |-> ApiRow(upstream, k).input_tokens
                                                     + u.input_tokens,
                               output_tokens |-> ApiRow(upstream, k).output_tokens
                                                     + u.output_tokens,
                               total_tokens |-> ApiRow(upstream, k).total_tokens
                                                     + u.total_tokens]
                         ELSE @[kk]]]
    /\ budget' = [budget EXCEPT !.events = @ - 1]
    /\ UNCHANGED <<now, tzOffset, usage_snapshots, model_usage, daily_stats,
                   rate_limit_configs, rate_limit_status, running, passes, intervalId,
                   lastPass, lastSync, lastReset, shadow,
                   lastResponse>>

UseDelta == \E e \in DeltaEvents : Use(e[1], e[2])
UseRecon == \E e \in ReconEvents : Use(e[1], e[2])
UseFail == \E e \in FailEvents : Use(e[1], e[2])
UseSched == \E e \in SchedEvents : Use(e[1], e[2])

\* the proxy rejects requests before they reach a model: they count in the
\* global counters only
Unattributed ==
    /\ budget.events > 0
    /\ upstream' = [upstream EXCEPT !.total_requests = @ + UnattributedRequests,
                                    !.failure_count = @ + UnattributedRequests]
    /\ budget' = [budget EXCEPT !.events = @ - 1]
    /\ UNCHANGED <<now, tzOffset, usage_snapshots, model_usage, daily_stats,
                   rate_limit_configs, rate_limit_status, running, passes, intervalId,
                   lastPass, lastSync, lastReset, shadow,
                   lastResponse>>

\* the proxy restarts: its counters start again from zero
Restart ==
    /\ budget.restarts > 0
    /\ upstream # EmptyUsage
    /\ upstream' = EmptyUsage
    /\ budget' = [budget EXCEPT !.restarts = @ - 1]
    /\ UNCHANGED <<now, tzOffset, usage_snapshots, model_usage, daily_stats,
                   rate_limit_configs, rate_limit_status, running, passes, intervalId,
                   lastPass, lastSync, lastReset, shadow,
                   lastResponse>>

\* time passes while the process runs; a timer that is due fires before the
\* clock moves on
Tick(steps) ==
    /\ running = "running"
    /\ budget.ticks > 0
    /\ \E d \in steps :
          /\ intervalId # None => now + d <= intervalId.due
          /\ now' = now + d
    /\ budget' = [budget EXCEPT !.ticks = @ - 1]
    /\ UNCHANGED <<tzOffset, upstream, usage_snapshots, model_usage, daily_stats,
                   rate_limit_configs, rate_limit_status, running, passes, intervalId,
                   lastPass, lastSync, lastReset, shadow,
                   lastResponse>>

\* --- the program ---

\* the tables a call of storeUsageData on the shadow tables leaves
ShadowAfter(data) ==
    (CHOOSE o \in storeUsageData(shadow, data, now, tzOffset, "none") : TRUE).db

\* runFullSync from the resumption of storeUsageData (after its pricing
\* lookup) to the end of syncLimits: synchronous database calls, which no
\* other handler interleaves with.  fp names the statement that throws.
StoreAndSync(data, fp, thrown) ==
    \E out \in storeUsageData(DB, data, now, tzOffset, fp) :
        LET nowLocal == getLocalDateTime(now, tzOffset)
        IN  /\ usage_snapshots' = out.db.usage_snapshots
            /\ model_usage' = out.db.model_usage
            /\ daily_stats' = out.db.daily_stats
            /\ lastPass' = [n |-> lastPass.n + 1, at |-> now,
                            prev |-> lastPass.locals.kind, locals |-> out.locals]
            /\ shadow' = IF out.ok THEN ShadowAfter(data) ELSE shadow
            /\ rate_limit_status' =
                  syncLimits(getAllRateLimitConfigs(rate_limit_configs), rate_limit_status,
                             out.db.model_usage, nowLocal, thrown)
            /\ lastSync' = [n |-> lastSync.n + 1, at |-> now, prevAt |-> lastSync.at,
                            upstream |-> upstream, prevUpstream |-> lastSync.upstream,
                            before |-> rate_limit_status, ingested |-> out.ok,
                            thrown |-> thrown, prevThrown |-> lastSync.thrown,
                            locals |-> syncLocals(getAllRateLimitConfigs(rate_limit_configs),
                                                  out.db.model_usage, nowLocal)]
            /\ lastReset' = IF lastReset = None THEN None
                            ELSE [lastReset EXCEPT !.syncs = Min(2, @ + 1)]

\* a pass in the second in which the previous one ended
SameSecond == lastSync.n > 0 /\ lastSync.at = now

\* a whole pass that no other step interleaves with: fetch, store, sync
PassOk ==
    /\ running = "running"
    /\ passes = << >>
    /\ budget.passes > 0
    /\ SameSecond => budget.ties > 0
    /\ StoreAndSync([usage |-> upstream], "none", {})
    /\ budget' = [budget EXCEPT !.passes = @ - 1,
                                !.ties = IF SameSecond THEN @ - 1 ELSE @]
    /\ UNCHANGED <<now, tzOffset, upstream, rate_limit_configs, running, passes,
                   intervalId,
                   lastResponse>>

\* a whole pass whose fetch fails: fetchUsageData returns null
PassNoData ==
    /\ running = "running"
    /\ passes = << >>
    /\ budget.passes > 0
    /\ budget.fails > 0
    /\ SameSecond => budget.ties > 0
    /\ StoreAndSync(None, "none", {})
    /\ budget' = [budget EXCEPT !.passes = @ - 1, !.fails = @ - 1,
                                !.ties = IF SameSecond THEN @ - 1 ELSE @]
    /\ UNCHANGED <<now, tzOffset, upstream, rate_limit_configs, running, passes,
                   intervalId,
                   lastResponse>>

\* a whole pass in which a statement of storeUsageData throws
PassFails ==
    /\ running = "running"
    /\ passes = << >>
    /\ budget.passes > 0
    /\ budget.fails > 0
    /\ SameSecond => budget.ties > 0
    /\ \E fp \in FailPoints : StoreAndSync([usage |-> upstream], fp, {})
    /\ budget' = [budget EXCEPT !.passes = @ - 1, !.fails = @ - 1,
                                !.ties = IF SameSecond THEN @ - 1 ELSE @]
    /\ UNCHANGED <<now, tzOffset, upstream, rate_limit_configs, running, passes,
                   intervalId,
                   lastResponse>>

\* a whole pass in which the processing of the configs thrown throws
PassThrows ==
    /\ running = "running"
    /\ passes = << >>
    /\ budget.passes > 0
    /\ budget.fails > 0
    /\ SameSecond => budget.ties > 0
    /\ \E thrown \in (SUBSET DOMAIN rate_limit_configs) \ {{}} :
          StoreAndSync([usage |-> upstream], "none", thrown)
    /\ budget' = [budget EXCEPT !.passes = @ - 1, !.fails = @ - 1,
                                !.ties = IF SameSecond THEN @ - 1 ELSE @]
    /\ UNCHANGED <<now, tzOffset, upstream, rate_limit_configs, running, passes,
                   intervalId, lastResponse>>

\* the texts a client puts in the place of :config_id, as character sequences
ParamText ==
    [p \in {"1", "2", "7", "abc", "12abc", "1.5"} |->
        CASE p = "1" -> <<"1">>
          [] p = "2" -> <<"2">>
          [] p = "7" -> <<"7">>
          [] p = "abc" -> <<"a", "b", "c">>
          [] p = "12abc" -> <<"1", "2", "a", "b", "c">>
          [] p = "1.5" -> <<"1", ".", "5">>]

DigitValue ==
    [c \in {"0", "1", "2", "3", "4", "5", "6", "7", "8", "9"} |->
        CASE c = "0" -> 0 [] c = "1" -> 1 [] c = "2" -> 2 [] c = "3" -> 3
          [] c = "4" -> 4 [] c = "5" -> 5 [] c = "6" -> 6 [] c = "7" -> 7
          [] c = "8" -> 8 [] c = "9" -> 9]

\* the index of the first character of s from i on that is no white space
RECURSIVE SkipSpace(_, _)
SkipSpace(s, i) == IF i <= Len(s) /\ s[i] = " " THEN SkipSpace(s, i + 1) ELSE i

\* the longest run of decimal digits of s that starts at i
RECURSIVE DigitRun(_, _)
DigitRun(s, i) ==
    IF i <= Len(s) /\ s[i] \in DOMAIN DigitValue
    THEN <<s[i]>> \o DigitRun(s, i + 1)
    ELSE << >>

RECURSIVE DecimalValue(_)
DecimalValue(ds) ==
    IF ds = << >> THEN 0
    ELSE 10 * DecimalValue(SubSeq(ds, 1, Len(ds) - 1)) + DigitValue[ds[Len(ds)]]

\* parseInt(text): white space, a sign, then the longest run of digits; what
\* follows the digits is ignored; NaN when there is no digit
parseInt(s) ==
    Let(SkipSpace(s, 1), LAMBDA i :
    Let2(IF i <= Len(s) /\ s[i] = "-" THEN 0 - 1 ELSE 1,
         IF i <= Len(s) /\ s[i] \in {"-", "+"} THEN i + 1 ELSE i,
         LAMBDA sign, j :
    Let(DigitRun(s, j), LAMBDA ds :
        IF ds = << >> THEN [nan |-> TRUE, value |-> 0]
        ELSE [nan |-> FALSE, value |-> sign * DecimalValue(ds)])))

\* SELECT * FROM rate_limit_configs WHERE id = ?
getRateLimitConfig(configs, id) == IF id \in DOMAIN configs THEN configs[id] ELSE None

\* a reset that sets the anchor of every config
ResetRequest_EveryAnchor(param, configId, nowLocal) ==
    IF configId.nan
    THEN /\ lastResponse' = [param |-> param, configId |-> 0, status |-> 400]
         /\ UNCHANGED <<rate_limit_status, rate_limit_configs, lastReset>>
    ELSE IF getRateLimitConfig(rate_limit_configs, configId.value) = None
    THEN /\ lastResponse' = [param |-> param, configId |-> configId.value,
                              status |-> 404]
         /\ UNCHANGED <<rate_limit_status, rate_limit_configs, lastReset>>
    ELSE /\ lastResponse' = [param |-> param, configId |-> configId.value,
                              status |-> 200]
         /\ rate_limit_status' =
               [c \in DOMAIN rate_limit_status \cup {configId.value} |->
                   IF c = configId.value
                   THEN resetStatus(rate_limit_configs[configId.value], nowLocal)
                   ELSE rate_limit_status[c]]
         /\ rate_limit_configs' =
               [c \in DOMAIN rate_limit_configs |->
                   [rate_limit_configs[c] EXCEPT
                       !.reset_anchor_timestamp = toISOString(nowLocal)]]
         /\ lastReset' = [id |-> configId.value, at |-> now, usage |-> upstream,
                           syncs |-> 0, inflight |-> passes]

\* the route handler from parseInt on, and resetLimit: 400 when parseInt
\* gives NaN, 404 when resetLimit finds no config, else the status row and
\* the anchor are written and 200 is answered
ResetRequest(param, configId, nowLocal) ==
    IF configId.nan
    THEN /\ lastResponse' = [param |-> param, configId |-> 0, status |-> 400]
         /\ UNCHANGED <<rate_limit_status, rate_limit_configs, lastReset>>
    ELSE IF getRateLimitConfig(rate_limit_configs, configId.value) = None
    THEN /\ lastResponse' = [param |-> param, configId |-> configId.value,
                              status |-> 404]
         /\ UNCHANGED <<rate_limit_status, rate_limit_configs, lastReset>>
    ELSE /\ lastResponse' = [param |-> param, configId |-> configId.value,
                              status |-> 200]
         /\ rate_limit_status' =
               [c \in DOMAIN rate_limit_status \cup {configId.value} |->
                   IF c = configId.value
                   THEN resetStatus(rate_limit_configs[configId.value], nowLocal)
                   ELSE rate_limit_status[c]]
         /\ rate_limit_configs' =
               [rate_limit_configs EXCEPT
                   ![configId.value].reset_anchor_timestamp = toISOString(nowLocal)]
         /\ lastReset' = [id |-> configId.value, at |-> now, usage |-> upstream,
                           syncs |-> 0, inflight |-> passes]

\* POST /api/collector/reset/:config_id with one of the texts params
ResetRoute(params) ==
    /\ running = "running"
    /\ budget.resets > 0
    /\ \E param \in params :
          ResetRequest(param, parseInt(ParamText[param]), getLocalDateTime(now, tzOffset))
    /\ budget' = [budget EXCEPT !.resets = @ - 1]
    /\ UNCHANGED <<now, tzOffset, upstream, usage_snapshots, model_usage, daily_stats,
                   running, passes, intervalId, lastPass, lastSync, shadow>>

\* a reset of the one config of the deployment
Reset == ResetRoute({"1"})

\* --- passes as the Scheduler and the trigger endpoint start them ---

NewPass(src) == [pc |-> "fetch", data |-> None, src |-> src, at |-> now]

\* a start that arms the timer and leaves the first pass to it
Start_TimerOnly ==
    /\ running = "new"
    /\ running' = "running"
    /\ intervalId' = [due |-> now + CollectorInterval]
    /\ UNCHANGED <<now, tzOffset, upstream, usage_snapshots, model_usage, daily_stats,
                   rate_limit_configs, rate_limit_status, lastPass, lastSync,
                   lastReset, shadow, passes, budget, lastResponse>>

\* main: scheduler.start() runs the task at once and arms the timer
Start ==
    /\ running = "new"
    /\ running' = "running"
    /\ passes' = Append(passes, NewPass("start"))
    /\ intervalId' = [due |-> now + CollectorInterval]
    /\ budget' = [budget EXCEPT !.passes = @ - 1]
    /\ UNCHANGED <<now, tzOffset, upstream, usage_snapshots, model_usage, daily_stats,
                   rate_limit_configs, rate_limit_status, lastPass, lastSync,
                   lastReset, shadow,
                   lastResponse>>

\* the setInterval callback: await this.task()
TimerFire ==
    /\ running = "running"
    /\ intervalId # None
    /\ now >= intervalId.due
    /\ budget.passes > 0
    /\ passes' = Append(passes, NewPass("timer"))
    /\ intervalId' = [due |-> intervalId.due + CollectorInterval]
    /\ budget' = [budget EXCEPT !.passes = @ - 1]
    /\ UNCHANGED <<now, tzOffset, upstream, usage_snapshots, model_usage, daily_stats,
                   rate_limit_configs, rate_limit_status, running, lastPass, lastSync,
                   lastReset, shadow,
                   lastResponse>>

\* POST /api/collector/trigger: runFullSync() is called and 202 returned
Trigger ==
    /\ running = "running"
    /\ budget.passes > 0
    /\ passes' = Append(passes, NewPass("trigger"))
    /\ budget' = [budget EXCEPT !.passes = @ - 1]
    /\ UNCHANGED <<now, tzOffset, upstream, usage_snapshots, model_usage, daily_stats,
                   rate_limit_configs, rate_limit_status, running, intervalId,
                   lastPass, lastSync, lastReset, shadow,
                   lastResponse>>

\* fetchUsageData of pass i returns the report the proxy holds now
FetchOk ==
    /\ \E i \in DOMAIN passes :
          /\ passes[i].pc = "fetch"
          /\ passes' = [passes EXCEPT ![i].pc = "store",
                                       ![i].data = [usage |-> upstream]]
    /\ UNCHANGED <<now, tzOffset, upstream, usage_snapshots, model_usage, daily_stats,
                   rate_limit_configs, rate_limit_status, running, intervalId,
                   lastPass, lastSync, lastReset, shadow, budget,
                   lastResponse>>

\* fetchUsageData of pass i fails and returns null
FetchFail ==
    /\ \E i \in DOMAIN passes :
          /\ passes[i].pc = "fetch"
          /\ passes' = [passes EXCEPT ![i].pc = "store"]
    /\ UNCHANGED <<now, tzOffset, upstream, usage_snapshots, model_usage, daily_stats,
                   rate_limit_configs, rate_limit_status, running, intervalId,
                   lastPass, lastSync, lastReset, shadow, budget,
                   lastResponse>>

\* pass i stores what it fetched, reconciles and ends; a statement fp of
\* storeUsageData may throw, or else the processing of the configs thrown
StoreDone ==
    /\ \E i \in DOMAIN passes :
          /\ passes[i].pc = "store"
          /\ \E fp \in FailPoints \cup {"none"}, thrown \in SUBSET DOMAIN rate_limit_configs :
                /\ passes[i].data = None => fp = "none"
                /\ fp # "none" => thrown = {}
                /\ (fp # "none" \/ thrown # {}) => budget.fails > 0
                /\ StoreAndSync(passes[i].data, fp, thrown)
                /\ budget' = IF fp # "none" \/ thrown # {}
                              THEN [budget EXCEPT !.fails = @ - 1]
                              ELSE budget
          /\ passes' = [j \in 1..(Len(passes) - 1) |->
                           IF j < i THEN passes[j] ELSE passes[j + 1]]
    /\ UNCHANGED <<now, tzOffset, upstream, rate_limit_configs, running, intervalId,
                   lastResponse>>

\* SIGINT / SIGTERM: scheduler.stop(), server.stop(), process.exit(0)
Shutdown ==
    /\ running = "running"
    /\ intervalId # None
    /\ running' = "exited"
    /\ intervalId' = None
    /\ passes' = << >>
    /\ UNCHANGED <<now, tzOffset, upstream, usage_snapshots, model_usage, daily_stats,
                   rate_limit_configs, rate_limit_status, lastPass, lastSync,
                   lastReset, shadow, budget,
                   lastResponse>>

-----------------------------------------------------------------------------
(* Specifications *)

\* the Delta Engine: whole passes that succeed, no rate limits
TickDelta == Tick({CollectorInterval})
Init ==
    InitWith(DeltaStart, {<<DefaultTimezoneOffset, << >> >>}, "running",
             [events |-> MaxEvents, ticks |-> MaxTicks, passes |-> MaxPasses,
              fails |-> 0, resets |-> 0, ties |-> MaxTies, restarts |-> MaxRestarts])
Next == UseDelta \/ Unattributed \/ Restart \/ TickDelta \/ PassOk
Spec == Init /\ [][Next]_vars

\* the Delta Engine with passes that fail: a fetch that returns nothing, a
\* statement of storeUsageData that throws
NextFail == UseFail \/ Unattributed \/ TickDelta \/ PassOk \/ PassNoData \/ PassFails
InitFail ==
    InitWith(FailStart, {<<DefaultTimezoneOffset, << >> >>}, "running",
             [events |-> MaxFailEvents, ticks |-> MaxFailTicks, passes |-> MaxPasses,
              fails |-> MaxFails, resets |-> 0, ties |-> MaxTies, restarts |-> MaxRestarts])
SpecFail == InitFail /\ [][NextFail]_vars

\* the Reconciler: whole passes and resets over one rate limit
TickRecon == Tick({CollectorInterval, LongTick, DayTick})
InitRecon ==
    InitWith(StartTime, {<<d[1], [c \in {1} |-> d[2]]>> : d \in Deployments}, "running",
             [events |-> MaxReconEvents, ticks |-> MaxTicks, passes |-> MaxPasses,
              fails |-> MaxFails, resets |-> MaxResets, ties |-> 0, restarts |-> MaxRestarts])
NextRecon == UseRecon \/ Restart \/ TickRecon \/ PassOk \/ PassNoData \/ Reset
SpecRecon == InitRecon /\ [][NextRecon]_vars

\* the Reconciler over two rate limits, with passes that fail and with reset
\* requests of every kind
LimitConfigs ==
    [c \in {1, 2} |->
        IF c = 1 THEN Config("daily", "gpt", "both")
        ELSE [Config("rolling", "-", "requests") EXCEPT !.id = 2]]
TickLimits == Tick({CollectorInterval, LongTick})
ResetAny == ResetRoute(DOMAIN ParamText)
InitLimits ==
    InitWith(StartTime, {<<0, LimitConfigs>>}, "running",
             [events |-> MaxFailEvents, ticks |-> MaxLimitTicks, passes |-> MaxPasses,
              fails |-> MaxFails, resets |-> MaxResets, ties |-> 0, restarts |-> 0])
NextLimits ==
    \/ UseRecon \/ TickLimits \/ PassOk \/ PassNoData \/ PassFails \/ PassThrows
    \/ ResetAny
SpecLimits == InitLimits /\ [][NextLimits]_vars

\* the Reconciler over one weekly rate limit, started on every day of a week
\* shortly after and shortly before midnight UTC
WeekStarts == {(11 + d) * Day + tod : d \in 0..6, tod \in {600, 85800}}
WeekOffsets == {0 - 1, 0, DefaultTimezoneOffset}
TickWeek == Tick({CollectorInterval, DayTick})
InitWeek ==
    \E start \in WeekStarts :
        InitWith(start,
                 {<<o, [c \in {1} |-> Config("weekly", "-", "requests")]>> : o \in WeekOffsets},
                 "running",
                 [events |-> MaxWeekEvents, ticks |-> MaxWeekTicks, passes |-> MaxWeekPasses,
                  fails |-> 0, resets |-> 0, ties |-> 0, restarts |-> 0])
NextWeek == UseRecon \/ TickWeek \/ PassOk
SpecWeek == InitWeek /\ [][NextWeek]_vars

\* the Delta Engine on a report with two models under two endpoints
UseBreak == \E e \in BreakEvents : Use(e[1], e[2])
InitBreak ==
    InitWith(FailStart, {<<DefaultTimezoneOffset, << >> >>}, "running",
             [events |-> MaxBreakEvents, ticks |-> MaxBreakTicks, passes |-> MaxBreakPasses,
              fails |-> 0, resets |-> 0, ties |-> 0, restarts |-> MaxRestarts])
NextBreak == UseBreak \/ Restart \/ TickDelta \/ PassOk
SpecBreak == InitBreak /\ [][NextBreak]_vars

\* the Reconciler over one daily rate limit on every model, with a report
\* that only grows and no reset
GrowDeployments ==
    { <<0 - 1, Config("daily", "-", "tokens")>>,
      <<DefaultTimezoneOffset, Config("daily", "-", "both")>> }
UseGrow == \E e \in GrowEvents : Use(e[1], e[2])
TickGrow == Tick({CollectorInterval, LongTick})
InitGrow ==
    InitWith(StartTime, {<<d[1], [c \in {1} |-> d[2]]>> : d \in GrowDeployments}, "running",
             [events |-> MaxGrowEvents, ticks |-> MaxGrowTicks, passes |-> MaxGrowPasses,
              fails |-> 0, resets |-> 0, ties |-> 0, restarts |-> 0])
NextGrow == UseGrow \/ TickGrow \/ PassOk
SpecGrow == InitGrow /\ [][NextGrow]_vars

\* the Scheduler and the trigger endpoint: passes step by step
TickSched == Tick({FetchTimeout, CollectorInterval - FetchTimeout})
InitSched ==
    InitWith(DeltaStart,
             {<<DefaultTimezoneOffset, [c \in {1} |-> Config("daily", "gpt", "tokens")]>>},
             "new",
             [events |-> MaxSchedEvents, ticks |-> MaxTicks, passes |-> MaxPasses,
              fails |-> MaxFails, resets |-> 0, ties |-> MaxTies,
              restarts |-> MaxRestarts])
NextSched ==
    \/ Start \/ TimerFire \/ Trigger \/ FetchOk \/ FetchFail \/ StoreDone
    \/ Shutdown \/ TickSched \/ UseSched
SpecSched == InitSched /\ [][NextSched]_vars

\* the Scheduler, the trigger endpoint and the reset endpoint: passes step by
\* step, with reset requests between their steps
RaceStart == StartTime + CollectorInterval     \* 1970-01-12 23:55:00 UTC
TickRace == Tick({CollectorInterval})
InitRace ==
    InitWith(RaceStart,
             {<<0 - 1, [c \in {1} |-> Config("daily", "gpt", "tokens")]>>,
              <<0 - 1, [c \in {1} |-> Config("rolling", "-", "requests")]>>},
             "new",
             [events |-> MaxRaceEvents, ticks |-> MaxRaceTicks, passes |-> MaxRacePasses,
              fails |-> 0, resets |-> MaxResets, ties |-> 0, restarts |-> 0])
NextRace ==
    \/ Start \/ TimerFire \/ Trigger \/ FetchOk \/ FetchFail \/ StoreDone
    \/ TickRace \/ UseSched \/ Reset
SpecRace == InitRace /\ [][NextRace]_vars

-----------------------------------------------------------------------------
(* What the last pass did, read back from the store *)

PassOkDone == lastPass.locals.kind = "ok"

\* the daily row the last pass wrote, the row it found, its two usage maps
DailyNew == daily_stats[lastPass.locals.date]
DailyOld == IF lastPass.locals.existing = None THEN NoDaily
            ELSE lastPass.locals.existing
PassHasPrev == lastPass.locals.prevId # 0
PassPrevMap == IF PassHasPrev
               THEN usageMap(getModelUsageBySnapshot(model_usage, lastPass.locals.prevId))
               ELSE << >>
PassCurrMap == usageMap(getModelUsageBySnapshot(model_usage, lastPass.locals.snapshotId))
PassKeys == DOMAIN PassPrevMap \cup DOMAIN PassCurrMap

Leaf(row, k) ==
    IF k[1] \in DOMAIN row.breakdown.endpoints
    THEN IF k[2] \in DOMAIN row.breakdown.endpoints[k[1]].models
         THEN row.breakdown.endpoints[k[1]].models[k[2]]
         ELSE ZeroLeaf
    ELSE ZeroLeaf

\* what the last pass added to the leaf of key k
LeafInc(k) ==
    [requests |-> Leaf(DailyNew, k).requests - Leaf(DailyOld, k).requests,
     tokens |-> Leaf(DailyNew, k).tokens - Leaf(DailyOld, k).tokens,
     cost |-> Leaf(DailyNew, k).cost - Leaf(DailyOld, k).cost]

\* the reports stored so far are those of one upstream lifetime: from each
\* snapshot to the next no global counter and no per-key counter decreases
WellFormedReports ==
    \A i \in 1..(Len(usage_snapshots) - 1) :
        LET a == usage_snapshots[i]
            b == usage_snapshots[i + 1]
            ra == usageMap(getModelUsageBySnapshot(model_usage, a.id))
            rb == usageMap(getModelUsageBySnapshot(model_usage, b.id))
        IN  /\ b.total_requests >= a.total_requests
            /\ b.success_count >= a.success_count
            /\ b.failure_count >= a.failure_count
            /\ b.total_tokens >= a.total_tokens
            /\ \A k \in DOMAIN ra :
                  /\ k \in DOMAIN rb
                  /\ rb[k].request_count >= ra[k].request_count
                  /\ rb[k].total_tokens >= ra[k].total_tokens
                  /\ rb[k].estimated_cost_usd >= ra[k].estimated_cost_usd

-----------------------------------------------------------------------------
(* C1 *)

\* C1 (as stated): after a pass over well-formed reports of one upstream
\* lifetime, every counter of the date's daily row (total_requests,
\* success_count, failure_count, total_tokens, estimated cost) is at least what
\* it was before the pass.
C1_DailyMonotone ==
    (PassOkDone /\ WellFormedReports /\ lastPass.locals.existing # None)
        => /\ DailyNew.total_requests >= DailyOld.total_requests
           /\ DailyNew.success_count >= DailyOld.success_count
           /\ DailyNew.failure_count >= DailyOld.failure_count
           /\ DailyNew.total_tokens >= DailyOld.total_tokens
           /\ DailyNew.estimated_cost_usd >= DailyOld.estimated_cost_usd

-----------------------------------------------------------------------------
(* C2 *)

\* C2 (as stated): after every completed pass the daily row of the pass's
\* date has total cost, total tokens and total requests equal to the sums over
\* breakdown.models.
C2_TotalsAreBreakdownSums ==
    PassOkDone
        => /\ DailyNew.estimated_cost_usd = SumModels(DailyNew.breakdown, "cost")
           /\ DailyNew.total_tokens = SumModels(DailyNew.breakdown, "tokens")
           /\ DailyNew.total_requests = SumModels(DailyNew.breakdown, "requests")

-----------------------------------------------------------------------------
(* C3 *)

Current(k) ==
    [requests |-> Counters(PassCurrMap, k).req,
     tokens |-> Counters(PassCurrMap, k).tok,
     cost |-> Counters(PassCurrMap, k).cost]

\* the report of the last pass has a global counter below the previous
\* snapshot's
ReportBelowPrevious ==
    /\ PassOkDone
    /\ PassHasPrev
    /\ LET cur == usage_snapshots[lastPass.locals.snapshotId]
           prev == usage_snapshots[lastPass.locals.prevId]
       IN  \/ cur.total_requests < prev.total_requests
           \/ cur.total_tokens < prev.total_tokens

\* the key's request or token counter is below the previous snapshot's
KeyBelowPrevious(k) ==
    \/ Counters(PassCurrMap, k).req < Counters(PassPrevMap, k).req
    \/ Counters(PassCurrMap, k).tok < Counters(PassPrevMap, k).tok

\* C3: when the report's counters are lower than the previous snapshot's
\* (upstream restart), the pass adds to the daily row, for every key, exactly
\* the key's current requests, tokens and cost; no per-key delta and no daily
\* delta is negative, and no key is left out.
C3_RestartAddsCurrent ==
    ReportBelowPrevious
        => /\ \A k \in PassKeys :
                 /\ LeafInc(k) = Current(k)
                 /\ LeafInc(k).requests >= 0
                 /\ LeafInc(k).tokens >= 0
                 /\ LeafInc(k).cost >= 0
           /\ DailyNew.total_requests >= DailyOld.total_requests
           /\ DailyNew.total_tokens >= DailyOld.total_tokens
           /\ DailyNew.estimated_cost_usd >= DailyOld.estimated_cost_usd

-----------------------------------------------------------------------------
(* C4 *)

\* the key's cost delta exceeds 10 USD and is within 0.1 USD of its current
\* cumulative cost
CostFirstAppears(k) ==
    LET dCost == Counters(PassCurrMap, k).cost - Counters(PassPrevMap, k).cost
    IN  /\ PassHasPrev
        /\ dCost > FALSE_START_COST_THRESHOLD * MicroUSD
        /\ Abs(dCost - Counters(PassCurrMap, k).cost) < MicroUSD \div 10

ModelOf(row, m) ==
    IF m \in DOMAIN row.breakdown.models THEN row.breakdown.models[m]
    ELSE ZeroModelBreakdown
EndpointOf(row, e) ==
    IF e \in DOMAIN row.breakdown.endpoints THEN row.breakdown.endpoints[e]
    ELSE ZeroEndpointBreakdown

\* C4: in a pass with a previous snapshot, a key whose cost delta exceeds
\* 10 USD and is within 0.1 USD of its current cost adds nothing: its leaf in
\* breakdown.endpoints is unchanged, every model and every endpoint of the
\* breakdown grows by the sum of what the other keys add, and each total
\* (requests, tokens, cost) is the sum over breakdown.models or is unchanged.
C4_FalseStartAddsNothing ==
    (PassOkDone /\ \E k \in PassKeys : CostFirstAppears(k))
        => LET others == {k \in PassKeys : ~CostFirstAppears(k)}
           IN  /\ \A k \in PassKeys : CostFirstAppears(k) => LeafInc(k) = ZeroLeaf
               /\ \A m \in Models : \A f \in {"requests", "tokens", "cost"} :
                     LET ks == {k \in others : k[2] = m}
                     IN  ModelOf(DailyNew, m)[f] - ModelOf(DailyOld, m)[f]
                            = SumSet(ks, [k \in ks |-> LeafInc(k)[f]])
               /\ \A e \in Endpoints : \A f \in {"requests", "tokens", "cost"} :
                     LET ks == {k \in others : k[1] = e}
                     IN  EndpointOf(DailyNew, e)[f] - EndpointOf(DailyOld, e)[f]
                            = SumSet(ks, [k \in ks |-> LeafInc(k)[f]])
               /\ \/ DailyNew.total_requests = SumModels(DailyNew.breakdown, "requests")
                  \/ DailyNew.total_requests = DailyOld.total_requests
               /\ \/ DailyNew.total_tokens = SumModels(DailyNew.breakdown, "tokens")
                  \/ DailyNew.total_tokens = DailyOld.total_tokens
               /\ \/ DailyNew.estimated_cost_usd = SumModels(DailyNew.breakdown, "cost")
                  \/ DailyNew.estimated_cost_usd = DailyOld.estimated_cost_usd

\* C4 witness: a pass skipped one key as a false start and added another
C4_Witness ==
    /\ PassOkDone
    /\ \E k \in PassKeys : CostFirstAppears(k) /\ LeafInc(k) = ZeroLeaf
    /\ \E k \in PassKeys : ~CostFirstAppears(k) /\ LeafInc(k).requests > 0

-----------------------------------------------------------------------------
(* C5 *)

\* C5: at most one pass is in flight at any time: a timer tick or a
\* POST /api/collector/trigger that arrives while a pass runs starts no
\* second, overlapping pass.
C5_OnePassInFlight == Len(passes) <= 1

-----------------------------------------------------------------------------
(* C6 *)

\* a step that is a pass in which a statement of storeUsageData threw
FailedPassStep ==
    /\ lastPass'.n = lastPass.n + 1
    /\ lastPass'.locals.kind = "failed"

\* C6: a Delta Engine pass in which a step raises an error leaves the
\* snapshots, the model usage rows and the daily rows exactly as they were
\* before the pass.
C6_FailedPassLeavesStore ==
    [][FailedPassStep => UNCHANGED <<usage_snapshots, model_usage, daily_stats>>]_vars

-----------------------------------------------------------------------------
(* C7 *)

\* C7: after a pass that failed part-way, the next successful pass on the
\* same day leaves today's daily row equal to the row of a store in which the
\* failed pass never ran.
C7_FailedPassLeavesNoTrace ==
    (PassOkDone /\ lastPass.prev = "failed")
        => /\ lastPass.locals.date \in DOMAIN shadow.daily_stats
           /\ DailyNew = shadow.daily_stats[lastPass.locals.date]

-----------------------------------------------------------------------------
(* C8 *)

\* the last Reconciler pass is the first one after a reset, and the upstream
\* counters it met are those of the moment of the reset
FirstSyncAfterReset ==
    /\ lastReset # None
    /\ lastReset.syncs = 1
    /\ lastSync.upstream = lastReset.usage

\* C8: the first Reconciler pass after a reset stores used_tokens = 0,
\* used_requests = 0 and percentage = 100 for the config that was reset when
\* the upstream counters have not changed since the reset, for every strategy
\* and whether or not a snapshot was ingested in between.
C8_ResetTakesEffect ==
    FirstSyncAfterReset
        => /\ rate_limit_status[lastReset.id].used_tokens = 0
           /\ rate_limit_status[lastReset.id].used_requests = 0
           /\ rate_limit_status[lastReset.id].percentage = 100

-----------------------------------------------------------------------------
(* C9 *)

\* the local calendar day of an instant of the server clock
LocalDay(t) == FloorDiv(getLocalDateTime(t, tzOffset), Day)

\* the last Reconciler pass is the first one after a local midnight
FirstSyncAfterMidnight ==
    /\ lastSync.n > 1
    /\ LocalDay(lastSync.at) > LocalDay(lastSync.prevAt)

DailyConfigs ==
    {c \in DOMAIN rate_limit_configs : rate_limit_configs[c].reset_strategy = "daily"}

-----------------------------------------------------------------------------
(* C10 *)

\* the configs the last Reconciler pass processed with a baseline row before
\* the window start and a row inside the window
BaselineConfigs ==
    {c \in DOMAIN lastSync.locals :
        /\ ~lastSync.locals[c].skipped
        /\ lastSync.locals[c].usage.path \in {"gap", "nogap"}}

MapField(map, m, f) == IF m \in DOMAIN map THEN map[m][f] ELSE 0

\* the baseline of the claim for model m and counter f: interpolated between
\* the baseline row and the first row inside the window when they lie more
\* than 30 minutes apart, the baseline row's counter otherwise
ClaimBaseline(l, m, f) ==
    LET u == l.usage
        gap == u.firstInnerSnapshotTime - u.baselineTime
        clipped == Max(0, Min(gap, l.windowStart - u.baselineTime))
        g == GCD(clipped, gap)
        base == MapField(u.baselineMap, m, f)
        inner == IF m \in DOMAIN u.firstInnerMap THEN u.firstInnerMap[m][f] ELSE base
    IN  IF gap > 30 * 60
        THEN base + ScaledRound(inner - base, clipped \div g, gap \div g)
        ELSE base

ClaimModels(l) ==
    DOMAIN l.usage.currentMap \cup DOMAIN l.usage.baselineMap
        \cup (IF l.usage.path = "gap" THEN DOMAIN l.usage.firstInnerMap ELSE {})

\* the sum over the models of curr - baseline
ClaimUsage(l, f) ==
    LET ms == ClaimModels(l)
    IN  SumSet(ms, [m \in ms |-> MapField(l.usage.currentMap, m, f) - ClaimBaseline(l, m, f)])

RuledUsage(l, m) ==
    LET dTok == MapField(l.usage.currentMap, m, "total_tokens")
                    - ClaimBaseline(l, m, "total_tokens")
        dReq == MapField(l.usage.currentMap, m, "request_count")
                    - ClaimBaseline(l, m, "request_count")
        restart == dTok < 0 \/ dReq < 0
        tok == IF restart THEN MapField(l.usage.currentMap, m, "total_tokens") ELSE dTok
        req == IF restart THEN MapField(l.usage.currentMap, m, "request_count") ELSE dReq
        new == /\ ClaimBaseline(l, m, "total_tokens") = 0
               /\ ClaimBaseline(l, m, "request_count") = 0
               /\ tok > FALSE_START_TOKEN_THRESHOLD
    IN  IF new THEN ZeroRec ELSE [total_tokens |-> tok, request_count |-> req]

-----------------------------------------------------------------------------
(* Status rows, reset requests and failures inside a pass *)

\* the configs whose status row is the one the last syncLimits wrote
SyncedConfigs ==
    {c \in DOMAIN lastSync.locals :
        /\ ~lastSync.locals[c].skipped
        /\ c \notin lastSync.thrown
        /\ lastReset = None \/ lastReset.id # c \/ lastReset.syncs > 0}

ResetStep == budget'.resets # budget.resets

\* the text is the decimal notation of an integer
IntegerText(s) == Len(s) > 0 /\ \A i \in 1..Len(s) : s[i] \in DOMAIN DigitValue

\* C12: a reset request whose config_id is not an integer (also one with an
\* integer prefix, '12abc' or '1.5') is answered 400, one whose config_id
\* names no config is answered 404, and in both cases no status row and no
\* reset anchor is written or changed.
C12_BadResetRejected ==
    [][ResetStep =>
        /\ ~IntegerText(ParamText[lastResponse'.param]) =>
              /\ lastResponse'.status = 400
              /\ UNCHANGED <<rate_limit_status, rate_limit_configs>>
        /\ (/\ IntegerText(ParamText[lastResponse'.param])
            /\ DecimalValue(ParamText[lastResponse'.param])
                  \notin DOMAIN rate_limit_configs) =>
              /\ lastResponse'.status = 404
              /\ UNCHANGED <<rate_limit_status, rate_limit_configs>>]_vars

\* C13: in a pass over several configs in which the processing of some
\* configs throws, the status of every other config is computed and
\* written in the same pass, and the pass ends normally (its syncLimits is
\* on record).
C13_ConfigFailureIsolated ==
    [][(lastSync'.n # lastSync.n /\ lastSync'.thrown # {}) =>
          \A c \in DOMAIN lastSync'.locals \ lastSync'.thrown :
              ~lastSync'.locals[c].skipped =>
                  /\ c \in DOMAIN rate_limit_status'
                  /\ rate_limit_status'[c] = lastSync'.locals[c].status
                  /\ rate_limit_status'[c].last_updated
                        = getLocalDateTime(now, tzOffset)]_vars

\* config 1 threw, and config 2 got a new status that counts usage
C13_Witness ==
    /\ lastSync.n > 1
    /\ lastSync.thrown = {1}
    /\ 2 \in SyncedConfigs
    /\ 2 \in DOMAIN lastSync.before
    /\ rate_limit_status[2] # lastSync.before[2]
    /\ rate_limit_status[2].used_requests > 0

\* a pass reached the end of storeUsageData and syncLimits in this step
StoreStep == lastPass'.n # lastPass.n

\* C14: a failed fetch writes no snapshot; a failed fetch or an error inside
\* the Delta Engine does not stop the Reconciler from running in the same
\* pass, nor a later pass from starting (the process and the timer stay as
\* they are); and whatever went wrong in the Reconciler before, a pass that
\* received a report and met no error stores its snapshot.
C14_ErrorsStayInsideTheirPass ==
    [][StoreStep =>
        /\ lastSync'.n = lastSync.n + 1
        /\ lastSync'.at = now
        /\ lastPass'.locals.kind = "nodata" => usage_snapshots' = usage_snapshots
        /\ lastPass'.locals.kind = "ok" =>
              Len(usage_snapshots') = Len(usage_snapshots) + 1
        /\ running' = running
        /\ intervalId' = intervalId]_vars

\* a pass stored its report after a pass whose fetch failed and whose
\* Reconciler threw
C14_Witness ==
    /\ lastPass.prev = "nodata"
    /\ lastSync.prevThrown # {}
    /\ lastPass.locals.kind = "ok"
    /\ lastPass.locals.snapshotId = Len(usage_snapshots)
    /\ running = "running"

-----------------------------------------------------------------------------
(* The Scheduler *)

\* scheduler.start() was called in this step
StartStep == running = "new" /\ running' = "running"

\* the timer fired in this step
TimerStep == intervalId # None /\ intervalId' # None /\ intervalId' # intervalId

\* C15: scheduler.start() begins a first pass in the same step, without
\* waiting for an interval; and while stop() has not been called, the clock
\* does not pass the end of an interval without a further pass beginning
\* there: each firing of the timer begins a pass at the end of the interval
\* and arms the next interval.
C15_PassAtStartAndEveryInterval ==
    [][/\ StartStep =>
            /\ passes' = Append(passes, NewPass("start"))
            /\ intervalId' = [due |-> now + CollectorInterval]
       /\ (running = "running" /\ intervalId # None /\ now' # now) =>
            now' <= intervalId.due
       /\ TimerStep =>
            /\ now = intervalId.due
            /\ passes' = Append(passes, NewPass("timer"))
            /\ intervalId'.due = intervalId.due + CollectorInterval]_vars

\* the pass of the first interval has begun, one interval after the start
C15_Witness ==
    /\ running = "running"
    /\ intervalId # None
    /\ \E i \in DOMAIN passes :
          /\ passes[i].src = "timer"
          /\ passes[i].at = DeltaStart + CollectorInterval
    /\ intervalId.due = DeltaStart + 2 * CollectorInterval

\* C16: the interval between scheduled passes is measured from the end of
\* the previous pass: when the timer begins a pass and the pass before it
\* has returned, at least one interval has gone by since that return.
C16_IntervalFromPassEnd ==
    [][(TimerStep /\ passes = << >> /\ lastSync.n > 0) =>
            now >= lastSync.at + CollectorInterval]_vars

\* the process exits in this step
ExitStep == running = "running" /\ running' = "exited"

\* C17: on a termination signal a pass in flight runs to completion before
\* the process exits (none is in flight at the exit), and no pass begins
\* after the signal.
C17_GracefulStop ==
    [][/\ ExitStep => passes = << >>
       /\ running = "exited" => passes' = passes]_vars

-----------------------------------------------------------------------------
(* Accounting across passes *)

\* the report a snapshot and its model rows were stored from
ReportOf(i) ==
    [total_requests |-> usage_snapshots[i].total_requests,
     success_count |-> usage_snapshots[i].success_count,
     failure_count |-> usage_snapshots[i].failure_count,
     total_tokens |-> usage_snapshots[i].total_tokens,
     apis |-> [k \in {KeyOf(r) : r \in getModelUsageBySnapshot(model_usage, i)} |->
                 LET r == CHOOSE x \in getModelUsageBySnapshot(model_usage, i) :
                              KeyOf(x) = k
                 IN  [total_requests |-> r.request_count,
                      input_tokens |-> r.input_tokens,
                      output_tokens |-> r.output_tokens,
                      total_tokens |-> r.total_tokens]]]

\* the tables after storeUsageData ingests a report at time t
Ingest(db, usage, t) ==
    (CHOOSE o \in storeUsageData(db, [usage |-> usage], t, tzOffset, "none") : TRUE).db

\* three passes at three times of one local date ingested R1, nothing (the
\* fetch of R2 failed) and R3, and no statement of the two ingesting passes
\* threw
SkippedPass ==
    /\ lastPass.n = 3
    /\ lastPass.locals.kind = "ok"
    /\ lastPass.prev = "nodata"
    /\ Len(usage_snapshots) = 2
    /\ Len(shadow.usage_snapshots) = 2
    /\ usage_snapshots[1].collected_at < lastSync.prevAt
    /\ lastSync.prevAt < lastPass.at
    /\ getLocalDate(usage_snapshots[1].collected_at, tzOffset) = lastPass.locals.date

\* C18: for reports R1, R2, R3 of one upstream lifetime on one local date,
\* today's daily row (totals and breakdown) after ingesting R1 and R3, the
\* pass of R2 skipped because its fetch failed, equals the row after
\* ingesting R1, R2 and R3.
C18_SkippedPassLosesNothing ==
    SkippedPass =>
        daily_stats[lastPass.locals.date]
          = Ingest(Ingest(Ingest(EmptyDB, ReportOf(1), usage_snapshots[1].collected_at),
                          lastSync.prevUpstream, lastSync.prevAt),
                   lastPass.locals.usage, lastPass.at).daily_stats[lastPass.locals.date]

\* going from report a to report b, the false-start filter withholds no key
NothingWithheld(a, b) == skippedKeys(modelRecords(a, 0), modelRecords(b, 0)) = {}

\* the requests report b adds to report a are all requests of models
AllAttributed(a, b) ==
    b.total_requests - a.total_requests
      = SumSet(DOMAIN b.apis,
               [k \in DOMAIN b.apis |->
                   b.apis[k].total_requests - ApiRow(a, k).total_requests])

\* C18 (amended): the two rows are equal when the false-start filter
\* withholds no key between any two of the reports and every request the
\* reports add is a request of a model (no success/failure scaling).
C18_SkippedPassLosesNothingUnfiltered ==
    (/\ SkippedPass
     /\ NothingWithheld(ReportOf(1), lastSync.prevUpstream)
     /\ NothingWithheld(lastSync.prevUpstream, lastPass.locals.usage)
     /\ NothingWithheld(ReportOf(1), lastPass.locals.usage)
     /\ AllAttributed(ReportOf(1), lastSync.prevUpstream)
     /\ AllAttributed(lastSync.prevUpstream, lastPass.locals.usage)) =>
        daily_stats[lastPass.locals.date]
          = Ingest(Ingest(Ingest(EmptyDB, ReportOf(1), usage_snapshots[1].collected_at),
                          lastSync.prevUpstream, lastSync.prevAt),
                   lastPass.locals.usage, lastPass.at).daily_stats[lastPass.locals.date]

\* usage was served before the skipped pass and after it, and today's row
\* holds all of it
C18_Witness ==
    /\ SkippedPass
    /\ NothingWithheld(ReportOf(1), lastSync.prevUpstream)
    /\ NothingWithheld(lastSync.prevUpstream, lastPass.locals.usage)
    /\ NothingWithheld(ReportOf(1), lastPass.locals.usage)
    /\ AllAttributed(ReportOf(1), lastSync.prevUpstream)
    /\ AllAttributed(lastSync.prevUpstream, lastPass.locals.usage)
    /\ lastSync.prevUpstream.total_requests > ReportOf(1).total_requests
    /\ lastPass.locals.usage.total_requests > lastSync.prevUpstream.total_requests
    /\ daily_stats[lastPass.locals.date].total_requests
          = lastPass.locals.usage.total_requests

\* the per-key deltas of the last pass that survived the restart and
\* false-start correctors, summed per model
SurvivingDeltas == breakdownOf(keyDeltas(TRUE, PassPrevMap, PassCurrMap))

\* C19: in every pass that has a previous snapshot, the increase of today's
\* total cost, total tokens and total requests equals the sum of the
\* surviving per-key deltas (and so never exceeds it).
C19_IncreaseIsSurvivingSum ==
    (PassOkDone /\ PassHasPrev) =>
        /\ DailyNew.estimated_cost_usd - DailyOld.estimated_cost_usd
              = SumModels(SurvivingDeltas, "cost")
        /\ DailyNew.total_tokens - DailyOld.total_tokens
              = SumModels(SurvivingDeltas, "tokens")
        /\ DailyNew.total_requests - DailyOld.total_requests
              = SumModels(SurvivingDeltas, "requests")


\* --- C20 ---

\* a step that changes a relation of the Delta Engine
StoreWritten ==
    \/ usage_snapshots' # usage_snapshots
    \/ model_usage' # model_usage
    \/ daily_stats' # daily_stats

\* the config whose reset was answered with 200 in this step, if any
ResetTarget ==
    IF ResetStep /\ lastResponse'.status = 200 THEN {lastResponse'.configId} ELSE {}

C21_SnapshotsTotallyOrdered ==
    /\ \A i, j \in 1..Len(usage_snapshots) :
          i < j => usage_snapshots[i].collected_at < usage_snapshots[j].collected_at
    /\ (PassOkDone /\ PassHasPrev) =>
          lastPass.locals.prevId = lastPass.locals.snapshotId - 1


\* --- C22 ---

\* a snapshot row was inserted in this step
InsertStep == Len(usage_snapshots') > Len(usage_snapshots)

\* C22: insertUsageSnapshot returns a row id greater than 0 for every
\* inserted snapshot, and the ids returned by successive inserts are
\* distinct and strictly increasing.
C22_RowIdsIncrease ==
    [][InsertStep =>
          /\ Len(usage_snapshots') = Len(usage_snapshots) + 1
          /\ lastPass'.locals.snapshotId > 0
          /\ usage_snapshots'[Len(usage_snapshots')].id = lastPass'.locals.snapshotId
          /\ \A i \in 1..Len(usage_snapshots) :
                /\ usage_snapshots'[i].id = usage_snapshots[i].id
                /\ usage_snapshots[i].id < lastPass'.locals.snapshotId]_vars

\* three snapshots were inserted, one of them by a pass that failed later
C22_Witness ==
    /\ Len(usage_snapshots) = 3
    /\ lastPass.locals.snapshotId = 3
    /\ Len(shadow.usage_snapshots) = 2


\* --- C23 ---

\* a pass reached the end of syncLimits in this step
SyncStep == lastSync'.n # lastSync.n

\* the natural window start of config c in a pass at the present time
NaturalStart(c) ==
    calculatedWindow(rate_limit_configs[c].reset_strategy,
                     rate_limit_configs[c].window_minutes,
                     getLocalDateTime(now, tzOffset)).start

\* the later of the natural window start of config c and its anchor
LaterOfNaturalAndAnchor(c) ==
    IF rate_limit_configs[c].reset_anchor_timestamp = None THEN NaturalStart(c)
    ELSE Max(NaturalStart(c), ParseDate(rate_limit_configs[c].reset_anchor_timestamp))

\* C23: for every config and every pass, the window start used for the
\* usage calculation and stored in the status is the later of the natural
\* window start and the config's reset anchor: a later anchor replaces the
\* natural start, an anchor at or before it, or an absent one, is ignored.
C23_WindowStartIsLaterOfTwo ==
    [][SyncStep =>
          \A c \in DOMAIN rate_limit_configs :
              ~lastSync'.locals[c].skipped =>
                  /\ lastSync'.locals[c].windowStart = LaterOfNaturalAndAnchor(c)
                  /\ lastSync'.locals[c].usage
                        = calculateUsage(model_usage', rate_limit_configs[c].model_pattern,
                                         LaterOfNaturalAndAnchor(c))
                  /\ c \notin lastSync'.thrown =>
                        rate_limit_status'[c].window_start = LaterOfNaturalAndAnchor(c)]_vars

\* the last pass took the anchor of config 1, set by a reset after local
\* midnight, in place of the natural window start
C23_Witness ==
    /\ lastSync.n > 0
    /\ lastSync.thrown = {}
    /\ rate_limit_configs[1].reset_anchor_timestamp # None
    /\ rate_limit_status[1].window_start
          = ParseDate(rate_limit_configs[1].reset_anchor_timestamp)
    /\ rate_limit_status[1].window_start > lastSync.locals[1].calculatedWindowStart
    /\ rate_limit_status[1].last_updated > rate_limit_status[1].window_start


\* --- C24 ---

\* t is a Monday 00:00 (1970-01-05 was a Monday)
MondayMidnight(t) == t % (7 * Day) = 4 * Day

\* the local time of the last pass
LastSyncLocal == getLocalDateTime(lastSync.at, tzOffset)

\* C24: for a weekly limit and every local time now, Sunday included, the
\* natural window start is a Monday 00:00 local with window_start <= now <
\* window_start + 7 days, and next_reset = window_start + 7 days.
C24_WeeklyWindow ==
    \A c \in DOMAIN rate_limit_configs :
        (/\ lastSync.n > 0
         /\ rate_limit_configs[c].reset_strategy = "weekly"
         /\ ~lastSync.locals[c].skipped) =>
            /\ MondayMidnight(lastSync.locals[c].calculatedWindowStart)
            /\ lastSync.locals[c].calculatedWindowStart <= LastSyncLocal
            /\ LastSyncLocal < lastSync.locals[c].calculatedWindowStart + 7 * Day
            /\ lastSync.locals[c].status.next_reset
                  = lastSync.locals[c].calculatedWindowStart + 7 * Day
            /\ rate_limit_status[c].window_start = lastSync.locals[c].calculatedWindowStart
            /\ rate_limit_status[c].next_reset = rate_limit_status[c].window_start + 7 * Day

\* a pass ran on a local Sunday, six days into its window
C24_Witness ==
    /\ lastSync.n > 0
    /\ rate_limit_configs[1].reset_strategy = "weekly"
    /\ LastSyncLocal % (7 * Day) >= 3 * Day
    /\ LastSyncLocal % (7 * Day) < 4 * Day
    /\ 1 \in DOMAIN rate_limit_status
    /\ LastSyncLocal - rate_limit_status[1].window_start >= 6 * Day


\* --- C25 ---

\* the snapshot the last pass took as previous
PassPrevSnap == usage_snapshots[lastPass.locals.prevId]

\* the last pass had a previous snapshot, saw no restart of the global
\* counters, and its false-start filter dropped at least one key
FilterDropped ==
    /\ PassOkDone
    /\ PassHasPrev
    /\ skippedKeys(PassPrevMap, PassCurrMap) # {}
    /\ lastPass.locals.usage.total_requests > PassPrevSnap.total_requests
    /\ lastPass.locals.usage.total_tokens >= PassPrevSnap.total_tokens

\* floor(inc * survived / all): an increment scaled by the share of the
\* requests of the pass that survived the filter
ScaledByShare(inc) ==
    FloorDiv(inc * SumModels(SurvivingDeltas, "requests"),
             lastPass.locals.usage.total_requests - PassPrevSnap.total_requests)

\* C25: in a pass where the false-start filter drops at least one key, the
\* success_count and failure_count increments added to today's row are
\* scaled down by the share of requests that survived, so that the day's
\* success_count + failure_count never exceeds its total_requests (every
\* report having success_count + failure_count <= total_requests).
C25_ScalingKeepsCountsWithinTotal ==
    /\ FilterDropped =>
          /\ DailyNew.success_count - DailyOld.success_count
                = ScaledByShare(lastPass.locals.usage.success_count
                                  - PassPrevSnap.success_count)
          /\ DailyNew.failure_count - DailyOld.failure_count
                = ScaledByShare(lastPass.locals.usage.failure_count
                                  - PassPrevSnap.failure_count)
    /\ FilterDropped =>
          DailyNew.success_count + DailyNew.failure_count <= DailyNew.total_requests


\* --- C26 ---

\* the rows that match the pattern of config c
MatchingRows(c) ==
    getModelUsageByPattern(model_usage, rate_limit_configs[c].model_pattern, None, None)

\* the instant of the server clock at which the window of config c started
\* in the last pass (the window start is kept as a local time)
WindowStartInstant(c) == lastSync.locals[c].windowStart - tzOffset * Hour

\* the last pass stored no usage for config c
StoredNoUsage(c) ==
    /\ lastSync.locals[c].status.used_tokens = 0
    /\ lastSync.locals[c].status.used_requests = 0

\* C26: a Reconciler pass stores used_tokens = 0 and used_requests = 0 for
\* a config when no row matches its pattern, and when the most recent
\* matching row was captured before the effective window start (in every
\* other case the usage is computed from the latest rows against a baseline).
C26_NoUsageOutsideWindow ==
    \A c \in DOMAIN rate_limit_configs :
        (lastSync.n > 0 /\ ~lastSync.locals[c].skipped) =>
            /\ MatchingRows(c) = {} => StoredNoUsage(c)
            /\ (/\ MatchingRows(c) # {}
                /\ LatestCreatedAt(MatchingRows(c)) < WindowStartInstant(c))
                  => StoredNoUsage(c)


\* --- C27 ---

\* the rows of model m that match the pattern of config c and lie before,
\* resp. inside, the window of the last pass
RowsBeforeWindow(c, m) ==
    {r \in getModelUsageByPattern(model_usage, rate_limit_configs[c].model_pattern,
                                  None, toISOString(lastSync.locals[c].windowStart)) :
        r.model_name = m}
RowsInWindow(c, m) ==
    {r \in getModelUsageByPattern(model_usage, rate_limit_configs[c].model_pattern,
                                  toISOString(lastSync.locals[c].windowStart), None) :
        r.model_name = m}

\* the tokens of model m in its rows captured at time t
TokensAt(rs, t) ==
    SumSet({r \in rs : r.created_at = t},
           [r \in {x \in rs : x.created_at = t} |-> r.total_tokens])

\* the tokens model m shows in its first and in its latest row in the window
FirstInWindowTokens(c, m) ==
    TokensAt(RowsInWindow(c, m), EarliestCreatedAt(RowsInWindow(c, m)))
LatestInWindowTokens(c, m) ==
    TokensAt(RowsInWindow(c, m), LatestCreatedAt(RowsInWindow(c, m)))

\* what model m added to used_tokens of config c in the last pass
Contribution(c, m) ==
    modelDelta(lastSync.locals[c].usage.currentMap,
               lastSync.locals[c].usage.usedBaseline, m).total_tokens

\* C27: a model that has no matching row before the window start and whose
\* first row in the window already shows more than 100000 tokens adds at
\* most its token growth since that first row to used_tokens, whether or
\* not gap interpolation is applied (stated for a model whose counter did
\* not fall inside the window).
C27_PreExistingTotalNotCounted ==
    \A c \in DOMAIN rate_limit_configs :
        (/\ lastSync.n > 0
         /\ ~lastSync.locals[c].skipped
         /\ lastSync.locals[c].usage.path \in {"optimistic", "gap", "nogap"}) =>
            \A m \in DOMAIN lastSync.locals[c].usage.currentMap :
                (/\ RowsBeforeWindow(c, m) = {}
                 /\ RowsInWindow(c, m) # {}
                 /\ FirstInWindowTokens(c, m) > FALSE_START_TOKEN_THRESHOLD
                 /\ LatestInWindowTokens(c, m) >= FirstInWindowTokens(c, m)) =>
                    Contribution(c, m)
                        <= LatestInWindowTokens(c, m) - FirstInWindowTokens(c, m)


\* --- C28 ---

\* the requests, resp. tokens (field f), that a report holds for the models
\* that match the pattern of config c
MatchingCount(usage, c, f) ==
    SumSet({k \in DOMAIN usage.apis : Like(rate_limit_configs[c].model_pattern, k[2])},
           [k \in {x \in DOMAIN usage.apis :
                      Like(rate_limit_configs[c].model_pattern, x[2])} |->
               usage.apis[k][f]])

\* a pass ran after the last reset, with the anchor of that reset active,
\* and the upstream counters have not fallen since the reset
AnchorActivePass ==
    /\ lastReset # None
    /\ lastReset.syncs > 0
    /\ ~lastSync.locals[lastReset.id].skipped
    /\ lastSync.locals[lastReset.id].anchored
    /\ lastSync.upstream.total_requests >= lastReset.usage.total_requests
    /\ lastSync.upstream.total_tokens >= lastReset.usage.total_tokens

\* C28: while a reset anchor is active for a config, the used_tokens and
\* used_requests stored by every later pass count only counter growth that
\* occurred after the anchor time: usage from before the reset, also usage
\* between the last snapshot before the reset and the reset, is not counted.
C28_OnlyGrowthAfterAnchor ==
    AnchorActivePass =>
        /\ lastSync.locals[lastReset.id].status.used_requests
              <= MatchingCount(lastSync.upstream, lastReset.id, "total_requests")
                   - MatchingCount(lastReset.usage, lastReset.id, "total_requests")
        /\ lastSync.locals[lastReset.id].status.used_tokens
              <= MatchingCount(lastSync.upstream, lastReset.id, "total_tokens")
                   - MatchingCount(lastReset.usage, lastReset.id, "total_tokens")


\* --- C29 ---

\* the local date at the present time: the date of UTC + configured offset
Today == FloorDiv(now + tzOffset * Hour, Day)

\* the breakdown of today's row before this step, empty if there is no row
TodayBreakdown ==
    IF Today \in DOMAIN daily_stats THEN daily_stats[Today].breakdown
    ELSE EmptyBreakdown

\* C29: a Delta Engine pass creates or updates only the daily row of the
\* current local date (UTC + configured offset): the first pass of the date
\* creates it, later passes update it in place, rows of other dates are left
\* unchanged, and the whole delta since the previous snapshot goes to the
\* current date, also when the previous snapshot is of an earlier date.
C29_OnlyTodaysRow ==
    [][StoreStep =>
          /\ \A d \in DOMAIN daily_stats \ {Today} :
                d \in DOMAIN daily_stats' /\ daily_stats'[d] = daily_stats[d]
          /\ DOMAIN daily_stats' \subseteq DOMAIN daily_stats \cup {Today}
          /\ PassOkDone' =>
                /\ Today \in DOMAIN daily_stats'
                /\ daily_stats'[Today].stat_date = Today
                /\ lastPass'.locals.date = Today
                /\ daily_stats'[Today].breakdown
                      = mergeBreakdown(TodayBreakdown,
                                       breakdownOf(keyDeltas(PassHasPrev', PassPrevMap',
                                                             PassCurrMap')))]_vars

\* a pass created the row of a new local date, from a delta against a
\* snapshot of the date before, and the row of that date is still there
C29_Witness ==
    /\ PassOkDone
    /\ PassHasPrev
    /\ getLocalDate(PassPrevSnap.collected_at, tzOffset) < lastPass.locals.date
    /\ lastPass.locals.existing = None
    /\ DailyNew.total_requests > 0
    /\ \E d \in DOMAIN daily_stats :
          d < lastPass.locals.date /\ daily_stats[d].total_requests > 0


\* --- C30 ---

\* the model_usage rows of the snapshot the last pass inserted
PassRows == getModelUsageBySnapshot(model_usage, lastPass.locals.snapshotId)

\* the sum of a field over a set of model_usage rows
SumRows(rows, field) == SumSet(rows, [r \in rows |-> r[field]])

\* the last pass ran on a store without any snapshot
FirstPassDone == PassOkDone /\ ~PassHasPrev /\ lastPass.locals.snapshotId = 1

\* C30: on a store with no previous snapshot the first pass records every
\* (model, endpoint) row's full cumulative requests, tokens and cost in
\* today's daily row; no restart correction and no false-start filter is
\* applied, also for a row whose cumulative cost exceeds 10 USD.
C30_FirstPassIsOwnDelta ==
    FirstPassDone =>
        /\ lastPass.locals.existing = None
        /\ \A r \in PassRows :
              /\ r.api_endpoint \in DOMAIN DailyNew.breakdown.endpoints
              /\ r.model_name \in DOMAIN DailyNew.breakdown.endpoints[r.api_endpoint].models
              /\ Let(DailyNew.breakdown.endpoints[r.api_endpoint].models[r.model_name],
                     LAMBDA leaf : /\ leaf.requests = r.request_count
                                   /\ leaf.tokens = r.total_tokens
                                   /\ leaf.cost = r.estimated_cost_usd)
        /\ \A m \in DOMAIN DailyNew.breakdown.models :
              Let({r \in PassRows : r.model_name = m}, LAMBDA rs :
                  /\ rs # {}
                  /\ DailyNew.breakdown.models[m].requests = SumRows(rs, "request_count")
                  /\ DailyNew.breakdown.models[m].tokens = SumRows(rs, "total_tokens")
                  /\ DailyNew.breakdown.models[m].cost = SumRows(rs, "estimated_cost_usd"))

\* the first pass recorded a row whose cumulative cost is above the
\* false-start threshold
C30_Witness ==
    /\ FirstPassDone
    /\ Len(usage_snapshots) = 1
    /\ \E r \in PassRows :
          /\ r.estimated_cost_usd > FALSE_START_COST_THRESHOLD * MicroUSD
          /\ DailyNew.breakdown.endpoints[r.api_endpoint].models[r.model_name].cost
                = r.estimated_cost_usd


\* --- C31 ---

BreakdownFields == {"requests", "tokens", "cost"}

\* the sum of a field over the endpoints of a breakdown
SumEndpoints(breakdown, field) ==
    SumSet(DOMAIN breakdown.endpoints,
           [e \in DOMAIN breakdown.endpoints |-> breakdown.endpoints[e][field]])

\* the sum of a field over the models nested under endpoint e
SumNested(breakdown, e, field) ==
    SumSet(DOMAIN breakdown.endpoints[e].models,
           [m \in DOMAIN breakdown.endpoints[e].models |->
               breakdown.endpoints[e].models[m][field]])

\* the sum of a field over the entries of model m nested under the endpoints
SumOfModel(breakdown, m, field) ==
    Let({e \in DOMAIN breakdown.endpoints : m \in DOMAIN breakdown.endpoints[e].models},
        LAMBDA es : SumSet(es, [e \in es |-> breakdown.endpoints[e].models[m][field]]))

SinceText(c) == toISOString(lastSync.locals[c].windowStart)

\* the matching rows that the queries of calculateUsage place inside, resp.
\* before, the window of the last pass
CountedInside(c) ==
    getModelUsageByPattern(model_usage, rate_limit_configs[c].model_pattern,
                           SinceText(c), None)
CountedBefore(c) ==
    getModelUsageByPattern(model_usage, rate_limit_configs[c].model_pattern,
                           None, SinceText(c))

\* the last pass processed the rolling config c without a reset anchor
RollingPass(c) ==
    /\ lastSync.n > 0
    /\ ~lastSync.locals[c].skipped
    /\ rate_limit_configs[c].reset_strategy = "rolling"
    /\ ~lastSync.locals[c].anchored

\* C32: for a rolling limit and any configured timezone offset, a matching
\* row captured less than window_minutes before the Reconciler pass counts
\* as inside the window, and one captured more than window_minutes before
\* the pass counts as before the window.
C32_RollingOneTimeBase ==
    \A c \in DOMAIN rate_limit_configs :
        RollingPass(c) =>
            \A r \in MatchingRows(c) :
                /\ (/\ r.created_at <= lastSync.at
                    /\ r.created_at
                          > lastSync.at - rate_limit_configs[c].window_minutes * 60)
                      => r \in CountedInside(c) /\ r \notin CountedBefore(c)
                /\ r.created_at < lastSync.at - rate_limit_configs[c].window_minutes * 60
                      => r \in CountedBefore(c) /\ r \notin CountedInside(c)


\* --- C33 ---

\* config c was processed by the pass before this step and by the pass of
\* this step in one window: same effective window start, same baseline row
SameWindow(c) ==
    /\ lastSync.n > 0
    /\ ~lastSync.locals[c].skipped
    /\ ~lastSync'.locals[c].skipped
    /\ lastSync'.locals[c].windowStart = lastSync.locals[c].windowStart
    /\ lastSync.locals[c].usage.baselineTime # 0
    /\ lastSync'.locals[c].usage.baselineTime = lastSync.locals[c].usage.baselineTime

\* every per-model counter the earlier pass saw is at least as large in the
\* snapshot the pass of this step ingested
CountersGrew(c) ==
    /\ lastSync'.ingested
    /\ \A m \in DOMAIN lastSync.locals[c].usage.currentMap :
          /\ m \in DOMAIN lastSync'.locals[c].usage.currentMap
          /\ lastSync'.locals[c].usage.currentMap[m].total_tokens
                >= lastSync.locals[c].usage.currentMap[m].total_tokens
          /\ lastSync'.locals[c].usage.currentMap[m].request_count
                >= lastSync.locals[c].usage.currentMap[m].request_count

\* C33: within one window of a config (same effective window start, same
\* baseline row, no upstream restart, no reset) the used_tokens and
\* used_requests stored by successive Reconciler passes do not decrease as
\* snapshots with non-decreasing per-model counters arrive, also when a
\* model absent at the baseline grows past 100 000 tokens.
C33_UsedNonDecreasingInWindow ==
    [][SyncStep =>
          \A c \in DOMAIN rate_limit_configs :
              (SameWindow(c) /\ CountersGrew(c)) =>
                  /\ lastSync'.locals[c].status.used_tokens
                        >= lastSync.locals[c].status.used_tokens
                  /\ lastSync'.locals[c].status.used_requests
                        >= lastSync.locals[c].status.used_requests]_vars


\* --- C34 ---

\* the totals and the breakdown of a daily row
RowFigures(row) ==
    [total_requests |-> row.total_requests, success_count |-> row.success_count,
     failure_count |-> row.failure_count, total_tokens |-> row.total_tokens,
     estimated_cost_usd |-> row.estimated_cost_usd, breakdown |-> row.breakdown]

\* the last pass ingested a report identical to the report of snapshot i,
\* which was captured on the same local date
SameReportAs(i) ==
    /\ PassOkDone
    /\ i >= 1
    /\ i < lastPass.locals.snapshotId
    /\ ReportOf(i) = lastPass.locals.usage
    /\ getLocalDate(usage_snapshots[i].collected_at, tzOffset) = lastPass.locals.date

\* the last pass added a snapshot and left the figures of today's row as
\* they were (a row that did not exist counts as a row of zeros)
OnlySnapshotAdded ==
    /\ Len(usage_snapshots) = lastPass.locals.snapshotId
    /\ RowFigures(DailyNew) = RowFigures(DailyOld)

\* C34: ingesting a report identical to the report of the previous snapshot
\* (the snapshot inserted last before the pass) on the same local date adds a
\* new snapshot and leaves every total and every breakdown leaf of that date
\* unchanged.
C34_IdenticalReportAddsNothing ==
    (PassOkDone /\ SameReportAs(lastPass.locals.snapshotId - 1))
        => OnlySnapshotAdded

\* the same for the snapshot that the pass fetched as the second-latest, which
\* is another one when two snapshots carry the same capture time
IdenticalToFetchedAddsNothing ==
    (PassOkDone /\ PassHasPrev /\ SameReportAs(lastPass.locals.prevId))
        => OnlySnapshotAdded


\* --- C35 ---

\* this step ends pass i: it stores, reconciles and leaves the passes in
\* progress
EndsPass(i) ==
    /\ SyncStep
    /\ i \in DOMAIN passes
    /\ passes[i].pc = "store"
    /\ passes' = [j \in 1..(Len(passes) - 1) |-> IF j < i THEN passes[j] ELSE passes[j + 1]]

\* the last reset succeeded while pass i was in progress
ResetDuring(i) ==
    /\ lastReset # None
    /\ \E j \in DOMAIN lastReset.inflight :
          /\ lastReset.inflight[j].src = passes[i].src
          /\ lastReset.inflight[j].at = passes[i].at

\* C35 (as stated): if a reset of config c completes while a Reconciler
\* pass is in progress, then when the pass ends the stored status of c still
\* has used_tokens = 0 and percentage = 100.
C35_ResetSurvivesPass ==
    [][\A i \in DOMAIN passes :
          (EndsPass(i) /\ ResetDuring(i)) =>
              /\ rate_limit_status'[lastReset.id].used_tokens = 0
              /\ rate_limit_status'[lastReset.id].percentage = 100]_vars

\* C35 (amended): if a reset of config c completes while a pass is in
\* progress, the Reconciler of that pass reads the config of c after the
\* reset: the status it stores for c has a window start at or after the
\* anchor of the reset, and the window is the anchored one whenever the anchor
\* is later than the natural window start.
C35_PassReadsConfigAfterReset ==
    [][\A i \in DOMAIN passes :
          (EndsPass(i) /\ ResetDuring(i)) =>
              /\ rate_limit_status'[lastReset.id].window_start
                    >= getLocalDateTime(lastReset.at, tzOffset)
              /\ ~lastSync'.locals[lastReset.id].skipped =>
                    /\ lastSync'.locals[lastReset.id].anchored
                          = (getLocalDateTime(lastReset.at, tzOffset)
                               > lastSync'.locals[lastReset.id].calculatedWindowStart)
                    /\ lastSync'.locals[lastReset.id].windowStart
                          = Max(lastSync'.locals[lastReset.id].calculatedWindowStart,
                                getLocalDateTime(lastReset.at, tzOffset))]_vars

\* a pass has ended during which a reset had completed; the proxy served
\* requests only after the reset, and the status the pass stored shows them
\* as usage inside the anchored window
C35_Witness ==
    /\ lastReset # None
    /\ lastReset.syncs = 1
    /\ lastReset.inflight # << >>
    /\ Len(usage_snapshots) = 2
    /\ lastReset.usage = ReportOf(1)
    /\ lastSync.ingested
    /\ lastSync.at >= lastReset.at
    /\ ~lastSync.locals[lastReset.id].skipped
    /\ lastSync.locals[lastReset.id].anchored
    /\ rate_limit_status[lastReset.id].window_start
          = getLocalDateTime(lastReset.at, tzOffset)
    /\ rate_limit_status[lastReset.id].used_tokens > 0


\* --- C36 ---

\* The proxy of this specification never restarts, so of two reports with
\* different request totals the one with the smaller total was fetched
\* first: the snapshots are in the order of their fetches when their totals
\* do not fall from one id to the next.
StoredInFetchOrder ==
    \A i, j \in DOMAIN usage_snapshots :
        i < j => usage_snapshots[i].total_requests <= usage_snapshots[j].total_requests

\* the daily rows together hold no more requests than the proxy has served
NothingCountedTwice ==
    SumSet(DOMAIN daily_stats, [d \in DOMAIN daily_stats |-> daily_stats[d].total_requests])
        <= upstream.total_requests

\* C36: under any interleaving of scheduled ticks and manual triggers the
\* reports are stored in the order in which they were fetched, so that no
\* pass computes its delta against a newer report and counts again usage
\* that the daily rows already hold.
C36_ReportsStoredInFetchOrder == StoredInFetchOrder /\ NothingCountedTwice

====
